---- MODULE Spec2Model ----
(***************************************************************************)
(* Model of the security-requirements flow of                              *)
(* src/src/security_requirements_system/main.py: the Run State             *)
(* (SecurityRequirementsState), the handlers of SecurityRequirementsFlow   *)
(* and the parse of the validation stage's raw output.                     *)
(*                                                                         *)
(* Texts are sequences of lexemes; a lexeme is a sequence of one-character *)
(* strings (number-like lexemes) or a one-element sequence holding a word. *)
(* Whitespace between lexemes is left out: json.loads and the two regular  *)
(* expressions of validate_requirements skip it wherever lexemes meet.     *)
(* Numbers are exact decimal fractions <<num, den>> in lowest decimal      *)
(* form, den a power of ten; the lexemes are short enough for a Python     *)
(* float comparison to agree with the exact one.                           *)
(***************************************************************************)
EXTENDS Integers, Sequences, FiniteSets, Bags, TLC

\* ------------------------------------------------------------------ bounds
\* number of distinct input texts a run may load
NumInputTexts == 2
\* number of distinct raw outputs each analysis/mapping stage may return
NumStageOutputs == 2

\* ------------------------------------------------------- program constants
MAX_ITERATIONS == 3
VALIDATION_THRESHOLD == <<8, 10>>

\* ------------------------------------------------------------------ values
\* A Python value as the state holds it: its type and payload.
Float(n, d) == [type |-> "float", num |-> n, den |-> d, str |-> "", bool |-> FALSE]
PyInt(n)      == [type |-> "int",   num |-> n, den |-> 1, str |-> "", bool |-> FALSE]
Bool(b)     == [type |-> "bool",  num |-> 0, den |-> 1, str |-> "", bool |-> b]
Str(s)      == [type |-> "str",   num |-> 0, den |-> 1, str |-> s,  bool |-> FALSE]
None        == [type |-> "NoneType", num |-> 0, den |-> 1, str |-> "", bool |-> FALSE]
\* a list or a dict; of its content the model keeps whether it is empty
List(nonempty) ==
    [type |-> "list", num |-> 0, den |-> 1,
     str |-> IF nonempty THEN "nonempty" ELSE "", bool |-> FALSE]
Dict(nonempty) ==
    [type |-> "dict", num |-> 0, den |-> 1,
     str |-> IF nonempty THEN "nonempty" ELSE "", bool |-> FALSE]

\* bool(v) as Python's "if v:" computes it
Truthy(v) ==
    CASE v.type = "bool"  -> v.bool
      [] v.type \in {"float", "int"} -> v.num # 0
      [] v.type = "str"   -> v.str # ""
      [] v.type = "NoneType" -> FALSE
      [] OTHER -> v.str = "nonempty"

\* f"{v:.2f}" succeeds for numbers (bool is an int) and raises otherwise.
FormatsAsFloat(v) == v.type \in {"float", "int", "bool"}

\* a >= b for decimal fractions
Geq(a, b) == a[1] * b[2] >= b[1] * a[2]

\* ----------------------------------------------------------------- lexemes
DigitChars == <<"0", "1", "2", "3", "4", "5", "6", "7", "8", "9">>
Digits == {DigitChars[i] : i \in DOMAIN DigitChars}
DigitValue(c) == (CHOOSE i \in DOMAIN DigitChars : DigitChars[i] = c) - 1
\* the character class [0-9.] of the score pattern
ScoreClass == Digits \cup {"."}

LBRACE == <<"{">>
RBRACE == <<"}">>
LBRACK == <<"[">>
RBRACK == <<"]">>
COMMA  == <<",">>
COLON  == <<":">>
\* the line that opens or closes a Markdown code fence
FENCE  == <<"~~~">>
\* keys, bare (overall_score) and as a JSON string ("overall_score")
B_SCORE  == <<"overall_score">>
Q_SCORE  == <<"\"overall_score\"">>
B_PASSED == <<"validation_passed">>
Q_PASSED == <<"\"validation_passed\"">>
U_PASSED == <<"Validation_Passed">>
Q_OTHER  == <<"\"summary\"">>
\* literals
L_TRUE   == <<"true">>
L_FALSE  == <<"false">>
L_NULL   == <<"null">>
PY_TRUE  == <<"True">>
PY_FALSE == <<"False">>
Q_FALSE  == <<"\"false\"">>
Q_NUM    == <<"\"0.9\"">>
W_TEXT   == <<"Needs">>
W_HIGH   == <<"high">>

ScoreKeys  == {B_SCORE, Q_SCORE}
PassedKeys == {B_PASSED, Q_PASSED, U_PASSED}
TrueWords  == {L_TRUE, PY_TRUE}
FalseWords == {L_FALSE, PY_FALSE}
\* JSON string lexemes and the Python str each one decodes to
JsonStrings == {Q_SCORE, Q_PASSED, Q_OTHER, Q_FALSE, Q_NUM}
StringValue(lx) ==
    CASE lx = Q_SCORE  -> "overall_score"
      [] lx = Q_PASSED -> "validation_passed"
      [] lx = Q_OTHER  -> "summary"
      [] lx = Q_FALSE  -> "false"
      [] lx = Q_NUM    -> "0.9"

\* ----------------------------------------------------------------- numbers
\* the decimal fraction n/d with trailing zeros of the fraction dropped
RECURSIVE Normal(_, _)
Normal(n, d) == IF d > 1 /\ n % 10 = 0 THEN Normal(n \div 10, d \div 10) ELSE <<n, d>>

\* the value of a run of digits read after the prefix value acc
RECURSIVE DigitsValue(_, _)
DigitsValue(cs, acc) ==
    IF cs = << >> THEN acc ELSE DigitsValue(Tail(cs), 10 * acc + DigitValue(Head(cs)))

RECURSIVE Pow10(_)
Pow10(k) == IF k = 0 THEN 1 ELSE 10 * Pow10(k - 1)

Dots(cs)      == Cardinality({i \in DOMAIN cs : cs[i] = "."})
DotAt(cs)     == CHOOSE i \in DOMAIN cs : cs[i] = "."
WithoutDot(cs) == SelectSeq(cs, LAMBDA c : c # ".")

\* the longest prefix of a lexeme made of characters of [0-9.]: what the
\* greedy group ([0-9.]+) captures when the lexeme follows the colon
RECURSIVE ClassPrefix(_)
ClassPrefix(lx) ==
    IF lx = << >> \/ Head(lx) \notin ScoreClass THEN << >>
    ELSE <<Head(lx)>> \o ClassPrefix(Tail(lx))

\* float(cs) for cs over [0-9.]: a value when cs has a digit and at most
\* one point ("1." and ".5" are accepted), ValueError otherwise
FloatOk(cs) == Dots(cs) <= 1 /\ WithoutDot(cs) # << >>
FloatValue(cs) ==
    LET k == IF Dots(cs) = 0 THEN 0 ELSE Len(cs) - DotAt(cs)
        f == Normal(DigitsValue(WithoutDot(cs), 0), Pow10(k))
    IN  Float(f[1], f[2])

\* the JSON number grammar over [0-9.]: int part without a leading zero,
\* and a fraction, when there is a point, of at least one digit
IsJsonNumber(lx) ==
    /\ lx # << >>
    /\ \A i \in DOMAIN lx : lx[i] \in ScoreClass
    /\ Dots(lx) <= 1
    /\ LET ip == IF Dots(lx) = 0 THEN Len(lx) ELSE DotAt(lx) - 1
       IN  /\ ip >= 1
           /\ (ip > 1 => lx[1] # "0")
           /\ (Dots(lx) = 1 => DotAt(lx) < Len(lx))

\* -------------------------------------------------------------- json.loads
\* The result of parsing one JSON value that starts at lexeme i: whether it
\* parsed, the index after it, its Python value and, for an object, its
\* members in order as <<key, value>> pairs.
JsonFail == [ok |-> FALSE, next |-> 0, val |-> None, fields |-> << >>]
JsonOk(n, v, fs) == [ok |-> TRUE, next |-> n, val |-> v, fields |-> fs]

RECURSIVE ParseValue(_, _)
RECURSIVE ParseMembers(_, _, _)
RECURSIVE ParseElements(_, _)

ParseValue(raw, i) ==
    IF i > Len(raw) THEN JsonFail
    ELSE IF raw[i] = LBRACE THEN
        IF i + 1 <= Len(raw) /\ raw[i + 1] = RBRACE
        THEN JsonOk(i + 2, Dict(FALSE), << >>)
        ELSE ParseMembers(raw, i + 1, << >>)
    ELSE IF raw[i] = LBRACK THEN
        IF i + 1 <= Len(raw) /\ raw[i + 1] = RBRACK
        THEN JsonOk(i + 2, List(FALSE), << >>)
        ELSE ParseElements(raw, i + 1)
    ELSE IF raw[i] \in JsonStrings THEN JsonOk(i + 1, Str(StringValue(raw[i])), << >>)
    ELSE IF raw[i] = L_TRUE  THEN JsonOk(i + 1, Bool(TRUE), << >>)
    ELSE IF raw[i] = L_FALSE THEN JsonOk(i + 1, Bool(FALSE), << >>)
    ELSE IF raw[i] = L_NULL  THEN JsonOk(i + 1, None, << >>)
    ELSE IF IsJsonNumber(raw[i]) THEN
        JsonOk(i + 1,
               IF Dots(raw[i]) = 0 THEN PyInt(DigitsValue(raw[i], 0)) ELSE FloatValue(raw[i]),
               << >>)
    ELSE JsonFail

\* members of an object from lexeme i on, acc the members read so far
ParseMembers(raw, i, acc) ==
    IF i + 2 <= Len(raw) /\ raw[i] \in JsonStrings /\ raw[i + 1] = COLON THEN
        LET v    == ParseValue(raw, i + 2)
            acc2 == Append(acc, <<StringValue(raw[i]), v.val>>)
        IN  IF ~v.ok \/ v.next > Len(raw) THEN JsonFail
            ELSE IF raw[v.next] = RBRACE THEN JsonOk(v.next + 1, Dict(TRUE), acc2)
            ELSE IF raw[v.next] = COMMA THEN ParseMembers(raw, v.next + 1, acc2)
            ELSE JsonFail
    ELSE JsonFail

\* elements of an array from lexeme i on
ParseElements(raw, i) ==
    LET v == ParseValue(raw, i)
    IN  IF ~v.ok \/ v.next > Len(raw) THEN JsonFail
        ELSE IF raw[v.next] = RBRACK THEN JsonOk(v.next + 1, List(TRUE), << >>)
        ELSE IF raw[v.next] = COMMA THEN ParseElements(raw, v.next + 1)
        ELSE JsonFail

\* json.loads(raw): one value and nothing after it, JSONDecodeError otherwise
JsonLoads(raw) ==
    LET v == ParseValue(raw, 1)
    IN  IF v.ok /\ v.next = Len(raw) + 1 THEN v ELSE JsonFail

\* dict.get(key, default) on the members of a parsed object: the last
\* member of that key, as json.loads keeps it
RECURSIVE DictGet(_, _, _)
DictGet(fields, key, default) ==
    IF fields = << >> THEN default
    ELSE IF fields[Len(fields)][1] = key THEN fields[Len(fields)][2]
    ELSE DictGet(SubSeq(fields, 1, Len(fields) - 1), key, default)

\* ---------------------------------------------------------------- re.search
\* re.search(r"overall_score[\"']?\s*:\s*([0-9.]+)", raw): the leftmost key
\* followed by a colon and a lexeme that starts with a character of the
\* class; the result is the index of the captured lexeme, 0 for no match.
ScoreMatchAt(raw, i) ==
    /\ i + 2 <= Len(raw)
    /\ raw[i] \in ScoreKeys
    /\ raw[i + 1] = COLON
    /\ ClassPrefix(raw[i + 2]) # << >>
ScoreMatch(raw) ==
    IF \E i \in DOMAIN raw : ScoreMatchAt(raw, i)
    THEN 2 + CHOOSE i \in DOMAIN raw :
                 ScoreMatchAt(raw, i) /\ \A j \in 1..(i - 1) : ~ScoreMatchAt(raw, j)
    ELSE 0

\* re.search(r"validation_passed[\"']?\s*:\s*(true|false)", raw, re.IGNORECASE)
PassedMatchAt(raw, i) ==
    /\ i + 2 <= Len(raw)
    /\ raw[i] \in PassedKeys
    /\ raw[i + 1] = COLON
    /\ raw[i + 2] \in TrueWords \cup FalseWords
PassedMatch(raw) ==
    IF \E i \in DOMAIN raw : PassedMatchAt(raw, i)
    THEN 2 + CHOOSE i \in DOMAIN raw :
                 PassedMatchAt(raw, i) /\ \A j \in 1..(i - 1) : ~PassedMatchAt(raw, j)
    ELSE 0

\* ------------------------------------------------- validation result parse
\* the threshold compared with > instead of >=
MeetsThresholdStrict(score) ==
    ~Geq(VALIDATION_THRESHOLD, <<score.num, score.den>>)
\* the flag derived from the score 0.0 whatever the output states
MeetsThresholdOfDefault(score) == Geq(<<0, 1>>, VALIDATION_THRESHOLD)
\* score >= VALIDATION_THRESHOLD (line 201)
MeetsThreshold(score) == Geq(<<score.num, score.den>>, VALIDATION_THRESHOLD)

\* a parse that derives the flag from the threshold also for a record that
\* states no flag
ParseValidationThresholdForRecord(raw, score0, passed0) ==
    LET j == JsonLoads(raw)
    IN  IF j.ok THEN
            IF j.val.type # "dict"
            THEN [exc |-> "AttributeError", score |-> score0, passed |-> passed0]
            ELSE LET score == DictGet(j.fields, "overall_score", Float(0, 1))
                     stated == DictGet(j.fields, "validation_passed", None)
                 IN  [exc |-> "", score |-> score,
                      passed |-> IF stated = None THEN Bool(MeetsThreshold(score))
                                 ELSE stated]
        ELSE
            LET sm     == ScoreMatch(raw)
                pm     == PassedMatch(raw)
                group  == IF sm = 0 THEN << >> ELSE ClassPrefix(raw[sm])
                score1 == IF sm = 0 THEN score0 ELSE FloatValue(group)
            IN  IF sm # 0 /\ ~FloatOk(group)
                THEN [exc |-> "ValueError", score |-> score0, passed |-> passed0]
                ELSE IF pm # 0
                THEN [exc |-> "", score |-> score1,
                      passed |-> Bool(raw[pm] \in TrueWords)]
                ELSE IF ~FormatsAsFloat(score1)
                THEN [exc |-> "TypeError", score |-> score1, passed |-> passed0]
                ELSE [exc |-> "", score |-> score1,
                      passed |-> Bool(MeetsThreshold(score1))]

\* Lines 183-201 on the raw output, score0 and passed0 being the values the
\* state holds before: the exception raised ("" for none) and the score
\* and flag the state holds afterwards.
ParseValidation(raw, score0, passed0) ==
    LET j == JsonLoads(raw)
    IN  IF j.ok THEN
            IF j.val.type # "dict"
            THEN [exc |-> "AttributeError", score |-> score0, passed |-> passed0]
            ELSE [exc |-> "",
                  score  |-> DictGet(j.fields, "overall_score", Float(0, 1)),
                  passed |-> DictGet(j.fields, "validation_passed", Bool(FALSE))]
        ELSE
            LET sm     == ScoreMatch(raw)
                pm     == PassedMatch(raw)
                group  == IF sm = 0 THEN << >> ELSE ClassPrefix(raw[sm])
                score1 == IF sm = 0 THEN score0 ELSE FloatValue(group)
            IN  IF sm # 0 /\ ~FloatOk(group)
                THEN [exc |-> "ValueError", score |-> score0, passed |-> passed0]
                ELSE IF pm # 0
                THEN [exc |-> "", score |-> score1,
                      passed |-> Bool(raw[pm] \in TrueWords)]
                ELSE IF ~FormatsAsFloat(score1)
                THEN [exc |-> "TypeError", score |-> score1, passed |-> passed0]
                ELSE [exc |-> "", score |-> score1,
                      passed |-> Bool(MeetsThreshold(score1))]

\* ------------------------------------------------ the validation stage's raw
\* What the validation stage may return (result.raw, lines 166-180): the
\* verdict the stage means to report, and the text it writes it as.
ScoreValues == {<<92, 100>>, <<65, 100>>, <<8, 10>>}

RECURSIVE IntChars(_)
IntChars(m) ==
    IF m < 10 THEN <<DigitChars[m + 1]>>
    ELSE IntChars(m \div 10) \o <<DigitChars[(m % 10) + 1]>>
RECURSIVE FracChars(_, _)
FracChars(r, d) ==
    IF d = 1 THEN << >>
    ELSE <<DigitChars[(r \div (d \div 10)) + 1]>> \o FracChars(r % (d \div 10), d \div 10)
\* the decimal numeral of the fraction s
DecimalChars(s) ==
    IntChars(s[1] \div s[2])
        \o (IF s[2] = 1 THEN << >> ELSE <<".">> \o FracChars(s[1] % s[2], s[2]))

\* the ways a stage writes a number: 0.8, 0.80, "0.8." at the end of a
\* sentence, 0.8/1 as a ratio
NumberStyles == {"plain", "zero", "period", "ratio"}
RenderNumber(s, style) ==
    CASE style = "plain"  -> DecimalChars(s)
      [] style = "zero"   -> DecimalChars(s) \o <<"0">>
      [] style = "period" -> DecimalChars(s) \o <<".">>
      [] style = "ratio"  -> DecimalChars(s) \o <<"/", "1">>

Verdict(shape, skind, sval, sstyle, pkind, pval, pstyle) ==
    [shape |-> shape, skind |-> skind, sval |-> sval, sstyle |-> sstyle,
     pkind |-> pkind, pval |-> pval, pstyle |-> pstyle]
NoVerdict == Verdict("pending", "none", <<0, 1>>, "plain", "none", FALSE, "json")

\* score and flag as a verdict may state them; the styles other than the
\* plain one are tried on the threshold value
ScoreStatements(styles) ==
    {<<"none", <<0, 1>>, "plain">>, <<"str", <<0, 1>>, "plain">>, <<"null", <<0, 1>>, "plain">>}
        \cup {<<"num", s, st>> : s \in ScoreValues, st \in {"plain"}}
        \cup {<<"num", <<8, 10>>, st>> : st \in styles}
PassedStatements(styles) ==
    {<<"none", FALSE, "json">>, <<"str", FALSE, "json">>, <<"null", FALSE, "json">>}
        \cup {<<"bool", b, st>> : b \in BOOLEAN, st \in styles}

JsonVerdicts ==
    {Verdict("json", sc[1], sc[2], sc[3], pa[1], pa[2], pa[3]) :
        sc \in ScoreStatements({"zero"}), pa \in PassedStatements({"json"})}
TextVerdicts ==
    {Verdict("text", sc[1], sc[2], sc[3], pa[1], pa[2], pa[3]) :
        sc \in {x \in ScoreStatements(NumberStyles) : x[1] # "null"},
        pa \in {x \in PassedStatements({"json", "py", "upper"}) : x[1] # "null"}}
FencedVerdicts ==
    {Verdict("fenced", "num", s, "plain", pa[1], pa[2], "json") :
        s \in {<<92, 100>>}, pa \in {<<"none", FALSE>>, <<"bool", TRUE>>, <<"bool", FALSE>>}}
\* valid JSON that is no object, and the empty output
OtherShapes == {"empty", "array", "number", "null", "string", "record_in_array"}
OtherVerdicts ==
    {Verdict(sh, "none", <<0, 1>>, "plain", "none", FALSE, "json") : sh \in OtherShapes}
Verdicts == JsonVerdicts \cup TextVerdicts \cup FencedVerdicts \cup OtherVerdicts

\* the members of the JSON object that states verdict v
RenderMembers(v) ==
    LET sc == CASE v.skind = "none" -> << >>
                [] v.skind = "num"  -> <<Q_SCORE, COLON, RenderNumber(v.sval, v.sstyle)>>
                [] v.skind = "str"  -> <<Q_SCORE, COLON, Q_NUM>>
                [] v.skind = "null" -> <<Q_SCORE, COLON, L_NULL>>
        pa == CASE v.pkind = "none" -> << >>
                [] v.pkind = "bool" -> <<Q_PASSED, COLON, IF v.pval THEN L_TRUE ELSE L_FALSE>>
                [] v.pkind = "str"  -> <<Q_PASSED, COLON, Q_FALSE>>
                [] v.pkind = "null" -> <<Q_PASSED, COLON, L_NULL>>
    IN  sc \o (IF sc # << >> /\ pa # << >> THEN <<COMMA>> ELSE << >>) \o pa

\* the sentence-like text that states verdict v
RenderText(v) ==
    LET sc == CASE v.skind = "none" -> << >>
                [] v.skind = "num"  -> <<B_SCORE, COLON, RenderNumber(v.sval, v.sstyle)>>
                [] v.skind = "str"  -> <<B_SCORE, COLON, W_HIGH>>
        key  == IF v.pstyle = "upper" THEN U_PASSED ELSE B_PASSED
        word == IF v.pstyle = "json"
                THEN (IF v.pval THEN L_TRUE ELSE L_FALSE)
                ELSE (IF v.pval THEN PY_TRUE ELSE PY_FALSE)
        pa == CASE v.pkind = "none" -> << >>
                [] v.pkind = "bool" -> <<key, COLON, word>>
                [] v.pkind = "str"  -> <<B_PASSED, COLON, Q_FALSE>>
    IN  <<W_TEXT>> \o sc \o pa

Render(v) ==
    CASE v.shape = "json"   -> <<LBRACE>> \o RenderMembers(v) \o <<RBRACE>>
      [] v.shape = "fenced" -> <<FENCE, LBRACE>> \o RenderMembers(v) \o <<RBRACE, FENCE>>
      [] v.shape = "text"   -> RenderText(v)
      [] v.shape = "empty"  -> << >>
      [] v.shape = "array"  -> <<LBRACK, RBRACK>>
      [] v.shape = "number" -> <<DecimalChars(<<9, 10>>)>>
      [] v.shape = "null"   -> <<L_NULL>>
      [] v.shape = "string" -> <<Q_OTHER>>
      [] v.shape = "record_in_array" ->
            <<LBRACK, LBRACE, Q_SCORE, COLON, DecimalChars(<<9, 10>>), RBRACE, RBRACK>>

\* ---------------------------------------------------------------- texts
\* the i-th input text and the i-th raw output of a stage
InputText(i)         == << <<"requirements">>, <<DigitChars[i + 1]>> >>
StageOutput(name, i) == << <<name>>, <<DigitChars[i + 1]>> >>
InputTexts        == {InputText(i) : i \in 1..NumInputTexts}
StageOutputs(name) == {StageOutput(name, i) : i \in 1..NumStageOutputs}
FEEDBACK_HEADER == <<"PREVIOUS VALIDATION FEEDBACK:">>

\* input_file as kickoff() leaves it: the INPUT_FILE variable (possibly
\* empty) or the default path; the state's own default is None
NoInputFile  == "None"
ExistingFile == "inputs/requirements.txt"
MissingFile  == "inputs/missing.txt"
InputFiles   == {NoInputFile, "", ExistingFile, MissingFile}

\* ------------------------------------------------------------------- state
VARIABLES
    \* SecurityRequirementsState
    requirements_text, input_file, analyzed_requirements, security_controls,
    ai_security, compliance_requirements, validation_report, validation_passed,
    validation_score, iteration_count, final_requirements,
    \* the controller: the handler about to run, who invoked it (the flow's
    \* listener dispatch or a direct call from evaluate_and_decide) and the
    \* exception that ended the run ("" for none)
    pc, caller, fault,
    \* the environment: the text of the input file, the two output files
    disk_text, out_json, out_md, md_warning,
    \* history: the handlers executed, in order; the verdict the validation
    \* stage last meant to state; the inputs of the latest stage call
    trace, verdict, kickoff_inputs

\* One call of WeaviateQueryTool._run (tools/weaviate_tool.py) and the
\* search backend it talks to.
VARIABLES
    \* "CALLED" before the call runs, "RETURNED" or "RAISED" after it
    search_pc,
    \* the arguments of the call: query, limit, standard_filter and **kwargs
    call,
    \* the objects of the SecurityControl collection, in the order of their
    \* relevance to the query
    index,
    \* the str the call returned, and the exception that left it ("" for none)
    result, raised,
    \* history: the near_text requests the backend received, the number of
    \* connections opened and the number of them close() was called on
    sent, opened, closed

search_vars == <<search_pc, call, index, result, raised, sent, opened, closed>>
\* no call of the tool is under way
SearchIdle ==
    /\ search_pc = "IDLE"
    /\ call = << >>
    /\ index = << >>
    /\ result = << >>
    /\ raised = ""
    /\ sent = << >>
    /\ opened = 0
    /\ closed = 0

\* The catalog scripts: the three loaders (data/prepare_*.py) and the
\* schema set-up and ingestion of tools/weaviate_setup.py.
VARIABLES
    \* the literal table prepare_iso27001 holds
    iso_source,
    \* the prepared directory: for every artifact, whether it exists and the
    \* records it holds
    prepared,
    \* the SecurityControl collection: whether it exists and its objects in
    \* the order of their insertion
    collection,
    \* the number of ingestions run, and the exception that left the last
    \* script ("" for none)
    ingestions, script_fault,
    \* the script run last ("" for none), and the total the last ingestion
    \* that got to line 121 printed
    script, total_imported

catalog_vars ==
    <<iso_source, prepared, collection, ingestions, script_fault, script, total_imported>>
PreparedFiles == {"iso27001.json", "nist_csf.json", "owasp_asvs.json"}
NotWritten == [exists |-> FALSE, records |-> << >>]
NoCollection == [exists |-> FALSE, objects |-> EmptyBag]
\* nothing is prepared and the backend holds no collection
CatalogIdle ==
    /\ iso_source = << >>
    /\ prepared = [f \in PreparedFiles |-> NotWritten]
    /\ collection = NoCollection
    /\ ingestions = 0
    /\ script_fault = ""
    /\ script = ""
    /\ total_imported = 0

\* the variables of the components other than the flow
other_vars == <<search_vars, catalog_vars>>

state_fields ==
    <<requirements_text, input_file, analyzed_requirements, security_controls,
      ai_security, compliance_requirements, validation_report, validation_passed,
      validation_score, iteration_count, final_requirements>>
flow_vars ==
    <<state_fields, pc, caller, fault, disk_text, out_json, out_md, md_warning, trace, verdict,
      kickoff_inputs>>
vars == <<flow_vars, other_vars>>

\* the inputs mapping of a stage call; << >> for a name it does not pass
Inputs(req, ana, ctl, ai, comp) ==
    [requirements_text |-> req, analyzed_requirements |-> ana, security_controls |-> ctl,
     ai_security |-> ai, compliance_requirements |-> comp]
NoInputs == Inputs(<< >>, << >>, << >>, << >>, << >>)

\* SecurityRequirementsState() with the input file kickoff() sets
Init ==
    /\ requirements_text = << >>
    /\ input_file \in InputFiles
    /\ analyzed_requirements = << >>
    /\ security_controls = << >>
    /\ ai_security = << >>
    /\ compliance_requirements = << >>
    /\ validation_report = << >>
    /\ validation_passed = Bool(FALSE)
    /\ validation_score = Float(0, 1)
    /\ iteration_count = 0
    /\ final_requirements = << >>
    /\ pc = "LOADING"
    /\ caller = "flow"
    /\ fault = ""
    /\ disk_text \in InputTexts
    /\ out_json = << >>
    /\ out_md = << >>
    /\ md_warning = FALSE
    /\ trace = << >>
    /\ verdict = NoVerdict
    /\ kickoff_inputs = NoInputs
    /\ SearchIdle
    /\ CatalogIdle

\* a controller that records the exception and runs the handler again
AbortAndRetry(exc) ==
    /\ pc' = pc
    /\ caller' = caller
    /\ fault' = exc

\* a handler raises: the exception leaves kickoff() and the run is over
Abort(exc) ==
    /\ pc' = "ABORTED"
    /\ caller' = caller
    /\ fault' = exc

\* listeners with the two mapping stages after the analysis exchanged
ListenerMappingsSwapped(name) ==
    CASE name = "load_requirements"     -> "ANALYZING"
      [] name = "analyze_requirements"  -> "MAPPING_AI_SECURITY"
      [] name = "identify_ai_security"  -> "MAPPING_CONTROLS"
      [] name = "map_security_controls" -> "MAPPING_COMPLIANCE"
      [] name = "assess_compliance"     -> "VALIDATING"
      [] name = "validate_requirements" -> "DECIDING"
      [] OTHER -> "DONE"

\* The handler that runs when handler name returns. The flow starts the
\* @listen-er of a handler when a handler it started itself returns (the
\* decorators of lines 66-207). generate_final_output and the
\* analyze_requirements of the loop edge are plain method calls made by
\* evaluate_and_decide (lines 224, 230, 235): they return to it, it returns
\* in turn, and no handler listens to evaluate_and_decide.
Listener(name) ==
    CASE name = "load_requirements"     -> "ANALYZING"
      [] name = "analyze_requirements"  -> "MAPPING_CONTROLS"
      [] name = "map_security_controls" -> "MAPPING_AI_SECURITY"
      [] name = "identify_ai_security"  -> "MAPPING_COMPLIANCE"
      [] name = "assess_compliance"     -> "VALIDATING"
      [] name = "validate_requirements" -> "DECIDING"
      [] OTHER -> "DONE"
\* a decision that, when the directly called analysis returns, goes on to
\* write the report
ReturnLoopFinalizes(name) ==
    /\ pc' = IF caller = "flow" THEN Listener(name)
             ELSE IF name = "analyze_requirements" THEN "FINALIZING"
             ELSE "DONE"
    /\ caller' = "flow"
    /\ fault' = fault

\* a flow that, when the directly called generate_final_output returns,
\* starts it once more as if it were a listener of the decision
ReturnStartsFinalAgain(name) ==
    /\ pc' = IF caller = "flow" THEN Listener(name)
             ELSE IF name = "generate_final_output" THEN "FINALIZING"
             ELSE "DONE"
    /\ caller' = "flow"
    /\ fault' = fault

\* the return of handler name: to the flow, which starts its listener, or
\* to evaluate_and_decide, which returns in turn and ends the run
Return(name) ==
    /\ pc' = IF caller = "flow" THEN Listener(name) ELSE "DONE"
    /\ caller' = "flow"
    /\ fault' = fault

Log(name) == trace' = Append(trace, name)

\* ---------------------------------------------------------------- handlers
\* a loader that tests only the file's existence
LoadFaultExistenceOnly(file) ==
    IF file # ExistingFile THEN "FileNotFoundError" ELSE ""

\* the fault load_requirements raises for an input reference, "" for none:
\* the unset reference is tested first (lines 74-75), then the file's
\* existence (lines 78-79)
LoadFault(file) ==
    IF file \in {NoInputFile, ""} THEN "ValueError: No input file specified"
    ELSE IF file # ExistingFile THEN "FileNotFoundError"
    ELSE ""

load_requirements ==
    /\ pc = "LOADING"
    /\ Log("load_requirements")
    /\ IF LoadFault(input_file) # ""
       THEN Abort(LoadFault(input_file)) /\ UNCHANGED requirements_text
       ELSE requirements_text' = disk_text /\ Return("load_requirements")
    /\ UNCHANGED <<input_file, analyzed_requirements, security_controls, ai_security,
                   compliance_requirements, validation_report, validation_passed,
                   validation_score, iteration_count, final_requirements,
                   disk_text, out_json, out_md, md_warning, verdict, kickoff_inputs>>
    /\ UNCHANGED other_vars

\* an analysis input that never carries the feedback
AnalysisContextWithoutFeedback == requirements_text

\* the input of the analysis stage (lines 96-98)
AnalysisContext ==
    IF validation_report # << >> /\ ~Truthy(validation_passed)
    THEN requirements_text \o <<FEEDBACK_HEADER>> \o validation_report
    ELSE requirements_text

\* an analysis that stores the text it hands to its stage as the input text
analyze_requirements_storing_context ==
    /\ pc = "ANALYZING"
    /\ Log("analyze_requirements")
    /\ requirements_text' = AnalysisContext
    /\ kickoff_inputs' = [NoInputs EXCEPT !.requirements_text = AnalysisContext]
    /\ \/ /\ Abort("StageFault")
          /\ UNCHANGED analyzed_requirements
       \/ /\ \E raw \in StageOutputs("analysis") : analyzed_requirements' = raw
          /\ Return("analyze_requirements")
    /\ UNCHANGED <<input_file, security_controls, ai_security,
                   compliance_requirements, validation_report, validation_passed,
                   validation_score, iteration_count, final_requirements,
                   disk_text, out_json, out_md, md_warning, verdict>>
    /\ UNCHANGED other_vars

\* analyze_requirements (lines 88-103)
analyze_requirements ==
    /\ pc = "ANALYZING"
    /\ Log("analyze_requirements")
    /\ kickoff_inputs' = [NoInputs EXCEPT !.requirements_text = AnalysisContext]
    /\ \/ /\ Abort("StageFault")
          /\ UNCHANGED analyzed_requirements
       \/ /\ \E raw \in StageOutputs("analysis") : analyzed_requirements' = raw
          /\ Return("analyze_requirements")
    /\ UNCHANGED <<requirements_text, input_file, security_controls, ai_security,
                   compliance_requirements, validation_report, validation_passed,
                   validation_score, iteration_count, final_requirements,
                   disk_text, out_json, out_md, md_warning, verdict>>
    /\ UNCHANGED other_vars

\* a controls stage that stores its result over the analysis
map_security_controls_over_analysis ==
    /\ pc = "MAPPING_CONTROLS"
    /\ Log("map_security_controls")
    /\ kickoff_inputs' = [NoInputs EXCEPT !.analyzed_requirements = analyzed_requirements]
    /\ \/ /\ Abort("StageFault")
          /\ UNCHANGED <<analyzed_requirements, security_controls>>
       \/ /\ \E raw \in StageOutputs("controls") :
                analyzed_requirements' = raw /\ security_controls' = raw
          /\ Return("map_security_controls")
    /\ UNCHANGED <<requirements_text, input_file, ai_security,
                   compliance_requirements, validation_report, validation_passed,
                   validation_score, iteration_count, final_requirements,
                   disk_text, out_json, out_md, md_warning, verdict>>
    /\ UNCHANGED other_vars

\* lines 105-115
map_security_controls ==
    /\ pc = "MAPPING_CONTROLS"
    /\ Log("map_security_controls")
    /\ kickoff_inputs' = [NoInputs EXCEPT !.analyzed_requirements = analyzed_requirements]
    /\ \/ /\ Abort("StageFault")
          /\ UNCHANGED security_controls
       \/ /\ \E raw \in StageOutputs("controls") : security_controls' = raw
          /\ Return("map_security_controls")
    /\ UNCHANGED <<requirements_text, input_file, analyzed_requirements, ai_security,
                   compliance_requirements, validation_report, validation_passed,
                   validation_score, iteration_count, final_requirements,
                   disk_text, out_json, out_md, md_warning, verdict>>
    /\ UNCHANGED other_vars

identify_ai_security ==
    /\ pc = "MAPPING_AI_SECURITY"
    /\ Log("identify_ai_security")
    /\ kickoff_inputs' = [NoInputs EXCEPT !.requirements_text = requirements_text,
                                          !.analyzed_requirements = analyzed_requirements]
    /\ \/ /\ Abort("StageFault")
          /\ UNCHANGED ai_security
       \/ /\ \E raw \in StageOutputs("ai_security") : ai_security' = raw
          /\ Return("identify_ai_security")
    /\ UNCHANGED <<requirements_text, input_file, analyzed_requirements, security_controls,
                   compliance_requirements, validation_report, validation_passed,
                   validation_score, iteration_count, final_requirements,
                   disk_text, out_json, out_md, md_warning, verdict>>
    /\ UNCHANGED other_vars

assess_compliance ==
    /\ pc = "MAPPING_COMPLIANCE"
    /\ Log("assess_compliance")
    /\ kickoff_inputs' = [NoInputs EXCEPT !.requirements_text = requirements_text,
                                          !.analyzed_requirements = analyzed_requirements]
    /\ \/ /\ Abort("StageFault")
          /\ UNCHANGED compliance_requirements
       \/ /\ \E raw \in StageOutputs("compliance") : compliance_requirements' = raw
          /\ Return("assess_compliance")
    /\ UNCHANGED <<requirements_text, input_file, analyzed_requirements, security_controls,
                   ai_security, validation_report, validation_passed,
                   validation_score, iteration_count, final_requirements,
                   disk_text, out_json, out_md, md_warning, verdict>>
    /\ UNCHANGED other_vars

\* The parse of lines 183-201 and the two formatted prints of lines 204-205:
\* the exception the handler raises after the stage returned raw.
ValidationFault(r) ==
    IF r.exc # "" THEN r.exc
    ELSE IF ~FormatsAsFloat(r.score) THEN "FormatError"
    ELSE ""

validate_requirements ==
    /\ pc = "VALIDATING"
    /\ Log("validate_requirements")
    /\ kickoff_inputs' = Inputs(requirements_text, analyzed_requirements, security_controls,
                                ai_security, compliance_requirements)
    /\ \/ /\ Abort("StageFault")
          /\ UNCHANGED <<validation_report, validation_score, validation_passed, verdict>>
       \/ \E v \in Verdicts :
            LET r == ParseValidation(Render(v), validation_score, validation_passed)
            IN  /\ verdict' = v
                /\ validation_report' = Render(v)
                /\ validation_score' = r.score
                /\ validation_passed' = r.passed
                /\ IF ValidationFault(r) # ""
                   THEN Abort(ValidationFault(r))
                   ELSE Return("validate_requirements")
    /\ UNCHANGED <<requirements_text, input_file, analyzed_requirements, security_controls,
                   ai_security, compliance_requirements, iteration_count,
                   final_requirements, disk_text, out_json, out_md, md_warning>>
    /\ UNCHANGED other_vars

\* a counter that is never incremented
NextCountStuck(count) == count
\* a counter incremented twice per decision
NextCountTwice(count) == count + 2
\* self.state.iteration_count += 1 (line 219)
NextCount(count) == count + 1

\* the iteration budget tested before the flag
DecisionBudgetFirst(passed, count) ==
    IF count < MAX_ITERATIONS THEN "ANALYZING" ELSE "FINALIZING"
\* the budget compared with <= instead of <
DecisionOffByOne(passed, count) ==
    IF Truthy(passed) THEN "FINALIZING"
    ELSE IF count <= MAX_ITERATIONS THEN "ANALYZING"
    ELSE "FINALIZING"
\* the branch of lines 221-235 on the flag and the incremented counter: the
\* handler evaluate_and_decide calls
Decision(passed, count) ==
    IF Truthy(passed) THEN "FINALIZING"
    ELSE IF count < MAX_ITERATIONS THEN "ANALYZING"
    ELSE "FINALIZING"

evaluate_and_decide ==
    /\ pc = "DECIDING"
    /\ Log("evaluate_and_decide")
    /\ iteration_count' = NextCount(iteration_count)
    /\ pc' = Decision(validation_passed, iteration_count')
    /\ caller' = "evaluate_and_decide"
    /\ UNCHANGED <<requirements_text, input_file, analyzed_requirements, security_controls,
                   ai_security, compliance_requirements, validation_report,
                   validation_passed, validation_score, final_requirements,
                   fault, disk_text, out_json, out_md, md_warning, verdict, kickoff_inputs>>
    /\ UNCHANGED other_vars

\* a report whose metadata hold the defaults of the state class
FinalDocDefaultMetadata ==
    [metadata |-> [validation_score |-> Float(0, 1),
                   validation_passed |-> Bool(FALSE),
                   iterations |-> 0],
     original_requirements |-> requirements_text,
     requirements_analysis |-> analyzed_requirements,
     security_controls |-> security_controls,
     ai_ml_security |-> ai_security,
     compliance_requirements |-> compliance_requirements,
     validation_report |-> validation_report]

\* final_doc (lines 244-256); json.dumps (line 258) writes each of these
\* values (str, float, int, bool) so that it can be read back unchanged, and
\* the model keeps the document as the record it serialises
FinalDoc ==
    [metadata |-> [validation_score |-> validation_score,
                   validation_passed |-> validation_passed,
                   iterations |-> iteration_count],
     original_requirements |-> requirements_text,
     requirements_analysis |-> analyzed_requirements,
     security_controls |-> security_controls,
     ai_ml_security |-> ai_security,
     compliance_requirements |-> compliance_requirements,
     validation_report |-> validation_report]

\* The report is serialised into final_requirements and written to
\* outputs/security_requirements.json (lines 244-266); the handler then
\* calls _generate_markdown_summary (line 274).
generate_final_output ==
    /\ pc = "FINALIZING"
    /\ Log("generate_final_output")
    /\ final_requirements' = <<FinalDoc>>
    /\ out_json' = <<FinalDoc>>
    /\ pc' = "SUMMARIZING"
    /\ UNCHANGED <<requirements_text, input_file, analyzed_requirements, security_controls,
                   ai_security, compliance_requirements, validation_report,
                   validation_passed, validation_score, iteration_count,
                   caller, fault, disk_text, out_md, md_warning, verdict, kickoff_inputs>>
    /\ UNCHANGED other_vars

\* a summary step without the try/except of lines 278 and 321
generate_markdown_summary_uncaught ==
    /\ pc = "SUMMARIZING"
    /\ \E md_ok \in BOOLEAN :
          IF md_ok
          THEN out_md' = final_requirements /\ Return("generate_final_output")
          ELSE out_md' = out_md /\ Abort("Exception")
    /\ UNCHANGED <<state_fields, disk_text, out_json, md_warning, trace, verdict,
                   kickoff_inputs>>
    /\ UNCHANGED other_vars

\* _generate_markdown_summary (lines 276-322): the summary is rendered from
\* final_requirements and written to outputs/security_requirements.md; any
\* exception of the rendering or of the write is caught and printed as a
\* warning (lines 321-322), and generate_final_output returns.
generate_markdown_summary ==
    /\ pc = "SUMMARIZING"
    /\ \E md_ok \in BOOLEAN :
          /\ out_md' = IF md_ok THEN final_requirements ELSE out_md
          /\ md_warning' = ~md_ok
    /\ Return("generate_final_output")
    /\ UNCHANGED <<state_fields, fault, disk_text, out_json, trace, verdict,
                   kickoff_inputs>>
    /\ UNCHANGED other_vars

Next ==
    \/ load_requirements
    \/ analyze_requirements
    \/ map_security_controls
    \/ identify_ai_security
    \/ assess_compliance
    \/ validate_requirements
    \/ evaluate_and_decide
    \/ generate_final_output
    \/ generate_markdown_summary

Spec == Init /\ [][Next]_vars

\* ------------------------------------------------- the decision on its own
\* evaluate_and_decide applied to every Run State a validation step can
\* leave, with every counter value below the cap, and followed by the
\* handler it calls.
InitDecide ==
    /\ requirements_text \in InputTexts
    /\ disk_text = requirements_text
    /\ input_file = ExistingFile
    /\ analyzed_requirements = StageOutput("analysis", 1)
    /\ security_controls = StageOutput("controls", 1)
    /\ ai_security = StageOutput("ai_security", 1)
    /\ compliance_requirements = StageOutput("compliance", 1)
    /\ verdict \in Verdicts
    /\ validation_report = Render(verdict)
    /\ LET r == ParseValidation(Render(verdict), Float(0, 1), Bool(FALSE))
       IN  /\ ValidationFault(r) = ""
           /\ validation_score = r.score
           /\ validation_passed = r.passed
    /\ iteration_count \in 0..(MAX_ITERATIONS - 1)
    /\ final_requirements = << >>
    /\ pc = "DECIDING"
    /\ caller = "flow"
    /\ fault = ""
    /\ out_json = << >>
    /\ out_md = << >>
    /\ md_warning = FALSE
    /\ trace = <<"validate_requirements">>
    /\ kickoff_inputs = Inputs(requirements_text, analyzed_requirements, security_controls,
                               ai_security, compliance_requirements)
    /\ SearchIdle
    /\ CatalogIdle

NextDecide ==
    \/ evaluate_and_decide
    \/ analyze_requirements
    \/ generate_final_output
    \/ generate_markdown_summary

SpecDecide == InitDecide /\ [][NextDecide]_vars

\* ------------------------------------------------------------------ claims
Last(seq) == seq[Len(seq)]
Times(name) == Cardinality({i \in DOMAIN trace : trace[i] = name})
Executed(name) == Times(name) > 0
\* the run is over and no exception left kickoff()
Ended == pc = "DONE"
ReportWritten == out_json # << >>
\* the state a completed evaluate_and_decide leaves
Decided == trace # << >> /\ Last(trace) = "evaluate_and_decide"
\* the state a completed validate_requirements leaves
Validated == pc = "DECIDING"

\* C1: every run that loads its input and whose stages do not fault ends
\* with generate_final_output executed and the report written, after at
\* most MAX_ITERATIONS executions of validate_requirements.
C1_EveryRunFinalizes ==
    Ended =>
        /\ Executed("generate_final_output")
        /\ ReportWritten
        /\ Times("validate_requirements") <= MAX_ITERATIONS

\* C2: the analysis entered from evaluate_and_decide is followed, unless it
\* faults, by the mapping of the security controls (and so by the rest of
\* the chain).
C2_LoopReplaysChain ==
    [][(pc = "ANALYZING" /\ caller = "evaluate_and_decide" /\ pc' # "ABORTED")
            => pc' = "MAPPING_CONTROLS"]_vars

\* C3: from DECIDING with the flag true the next state is FINALIZING,
\* whatever the counter holds.
C3_PassedFinalizes ==
    [][(pc = "DECIDING" /\ Truthy(validation_passed)) => pc' = "FINALIZING"]_vars
C3_Witness ==
    /\ Decided
    /\ pc = "FINALIZING"
    /\ Truthy(validation_passed)
    /\ iteration_count = 1

C5_FinalCountInRange ==
    Ended =>
        /\ iteration_count \in 1..MAX_ITERATIONS
        /\ ReportWritten => out_json[1].metadata.iterations \in 1..MAX_ITERATIONS
C5_Witness ==
    /\ Ended
    /\ ReportWritten
    /\ out_json[1].metadata.iterations = iteration_count

\* C6: iteration_count stays in 0..MAX_ITERATIONS, a step of DECIDING adds
\* exactly one to it, and no other step changes it.
C6_CounterMonotoneBounded ==
    /\ [](iteration_count \in 0..MAX_ITERATIONS)
    /\ [][IF pc = "DECIDING"
           THEN iteration_count' = iteration_count + 1
           ELSE iteration_count' = iteration_count]_vars
C6_Witness ==
    /\ Decided
    /\ iteration_count = 1

\* C7: a step of DECIDING adds one to the counter and goes to FINALIZING
\* when the flag is true, to ANALYZING when it is false and the new counter
\* is below MAX_ITERATIONS, to FINALIZING otherwise, whatever the score, the
\* report text and the stage outputs are.
C7_DecisionFunction ==
    [][pc = "DECIDING" =>
        /\ iteration_count' = iteration_count + 1
        /\ pc' = CASE Truthy(validation_passed) -> "FINALIZING"
                   [] ~Truthy(validation_passed) /\ iteration_count' < 3 -> "ANALYZING"
                   [] ~Truthy(validation_passed) /\ iteration_count' >= 3 -> "FINALIZING"]_vars
C7_Witness ==
    /\ Decided
    /\ pc = "FINALIZING"
    /\ ~Truthy(validation_passed)
    /\ iteration_count >= 3

\* the score a verdict states as a number, as a Python float
StatedScore(v) == Float(v.sval[1], v.sval[2])
\* the verdict states its score as a number the text keeps apart from the
\* sentence around it
StatesScore(v) == v.skind = "num" /\ v.sstyle # "period"
StatesFlag(v)  == v.pkind = "bool"

\* C8: after a validation step, a JSON record stating score s and flag p
\* gives score = s and passed = p; so does a text stating both; a text
\* stating the score s and no flag gives score = s and passed = (s >= 0.8).
C8_ThreeTierParse ==
    Validated =>
        /\ (verdict.shape \in {"json", "text"} /\ StatesScore(verdict) /\ StatesFlag(verdict))
              => /\ validation_score = StatedScore(verdict)
                 /\ validation_passed = Bool(verdict.pval)
        /\ (verdict.shape = "text" /\ StatesScore(verdict) /\ verdict.pkind = "none")
              => /\ validation_score = StatedScore(verdict)
                 /\ validation_passed = Bool(Geq(verdict.sval, <<8, 10>>))
C8_Witness ==
    /\ Validated
    /\ verdict.shape = "text"
    /\ verdict.skind = "num"
    /\ verdict.sval = <<8, 10>>
    /\ verdict.pkind = "none"
    /\ validation_passed = Bool(TRUE)

\* the output states no flag, or states it in a text as a quoted word the
\* pattern does not take
FlagNotRecoverable(v) == v.pkind = "none" \/ (v.shape = "text" /\ v.pkind = "str")
\* the score the output states, zero when it states none
ScoreOrZero(v) == IF v.skind = "num" THEN v.sval ELSE <<0, 1>>
\* the output does not parse as JSON
Unstructured(v) == v.shape \in {"text", "fenced", "empty"}

C10_ParseNeverAborts ==
    (pc = "ABORTED" /\ Last(trace) = "validate_requirements") => fault = "StageFault"

\* ------------------------------------------------------------- C11 .. C20
\* the validation output states that validation passed
StatesPassedTrue(v) == v.pkind = "bool" /\ v.pval
\* the validation output says nothing about a passed flag
StatesNoFlag(v) == v.pkind = "none"
\* the run treats the validation as passed (the test of line 221)
PassedIsTrue == Truthy(validation_passed)

\* C11: in every state after a validation step, validation_passed is true
\* only if the output of that step states passed = true, or that output
\* states no passed flag and validation_score is at least 0.8.
C11_PassedOnlyIfStatedOrThreshold ==
    (Executed("validate_requirements") /\ PassedIsTrue)
        => \/ StatesPassedTrue(verdict)
           \/ StatesNoFlag(verdict) /\ Geq(validation_score, VALIDATION_THRESHOLD)

\* the analysis reached through the loop edge (line 230) has executed
LoopAnalysisExecuted == Times("analyze_requirements") >= 2
StartsWith(text, prefix) ==
    Len(text) >= Len(prefix) /\ SubSeq(text, 1, Len(prefix)) = prefix
EndsWith(text, suffix) ==
    Len(text) >= Len(suffix)
        /\ SubSeq(text, Len(text) - Len(suffix) + 1, Len(text)) = suffix

\* C12: the analysis stage called through the loop edge receives a text
\* that begins with the original input text and ends with the report the
\* validation step of this run produced, the two not overlapping.
C12_LoopAnalysisGetsFeedback ==
    LoopAnalysisExecuted =>
        LET context == kickoff_inputs.requirements_text
        IN  /\ StartsWith(context, disk_text)
            /\ EndsWith(context, Render(verdict))
            /\ Len(context) >= Len(disk_text) + Len(Render(verdict))
C12_Witness ==
    /\ LoopAnalysisExecuted
    /\ Ended
    /\ Render(verdict) # << >>
    /\ kickoff_inputs.requirements_text
          = disk_text \o <<FEEDBACK_HEADER>> \o Render(verdict)

UnsetReference == input_file \in {NoInputFile, ""}
MissingReference == ~UnsetReference /\ input_file # ExistingFile
\* no stage executor has been called and nothing has been written
NothingRun == kickoff_inputs = NoInputs /\ out_json = << >> /\ out_md = << >>

\* C13: once load_requirements has run on an unset reference or on a
\* reference to a missing file, the run is aborted with load_requirements
\* its only handler, no stage called and no report written; the unset
\* reference raises the ValueError of the first test, never the
\* FileNotFoundError of the second.
C13_LoadFaultAborts ==
    (pc # "LOADING" /\ (UnsetReference \/ MissingReference))
        => /\ pc = "ABORTED"
           /\ trace = <<"load_requirements">>
           /\ NothingRun
           /\ requirements_text = << >>
           /\ UnsetReference => fault = "ValueError: No input file specified"
           /\ MissingReference => fault = "FileNotFoundError"
C13_Witness ==
    /\ pc = "ABORTED"
    /\ input_file = ""
    /\ fault = "ValueError: No input file specified"
    /\ trace = <<"load_requirements">>

StageFaulted == fault = "StageFault"

\* C14: the step in which a stage executor call faults aborts the run,
\* changes no field of the Run State and finds no report written; no step
\* follows it, so the stage is not called again, no later handler runs and
\* no report is written.
C14_StageFaultEndsRun ==
    [][/\ ~StageFaulted
       /\ StageFaulted' =>
            /\ pc' = "ABORTED"
            /\ state_fields' = state_fields
            /\ out_json' = << >>
            /\ out_md' = << >>]_vars
C14_Witness ==
    /\ StageFaulted
    /\ pc = "ABORTED"
    /\ LoopAnalysisExecuted
    /\ Last(trace) = "analyze_requirements"
    /\ out_json = << >>

\* the handlers of one iteration in the order of the @listen chain
StageOrder ==
    <<"load_requirements", "analyze_requirements", "map_security_controls",
      "identify_ai_security", "assess_compliance", "validate_requirements",
      "evaluate_and_decide">>
Position(name) == CHOOSE i \in DOMAIN StageOrder : StageOrder[i] = name
\* handler b may run directly after handler a: b follows a in the chain, or
\* a is the decision, which ends the iteration
MayFollow(a, b) ==
    IF a = "evaluate_and_decide"
    THEN b \in {"analyze_requirements", "generate_final_output"}
    ELSE /\ a # "generate_final_output"
         /\ b # "generate_final_output"
         /\ Position(b) = Position(a) + 1
\* the field the stage before the current one writes holds that stage's output
PrecedingOutputWritten ==
    CASE pc = "ANALYZING"           -> requirements_text = disk_text /\ disk_text \in InputTexts
      [] pc = "MAPPING_CONTROLS"    -> analyzed_requirements \in StageOutputs("analysis")
      [] pc = "MAPPING_AI_SECURITY" -> security_controls \in StageOutputs("controls")
      [] pc = "MAPPING_COMPLIANCE"  -> ai_security \in StageOutputs("ai_security")
      [] pc = "VALIDATING"          -> compliance_requirements \in StageOutputs("compliance")
      [] pc = "DECIDING"            -> verdict \in Verdicts /\ validation_report = Render(verdict)
      [] OTHER -> TRUE

\* C15: the handlers run one after the other in the order analysis,
\* controls, AI security, compliance, validation, decision, the first
\* handler is load_requirements, and whenever a stage is about to run the
\* stage before it has written its output (the first analysis: the loaded
\* input text) into the Run State.
C15_FixedStageOrder ==
    /\ trace # << >> => trace[1] = "load_requirements"
    /\ \A i \in 1..(Len(trace) - 1) : MayFollow(trace[i], trace[i + 1])
    /\ PrecedingOutputWritten
C15_Witness ==
    /\ pc = "DECIDING"
    /\ trace = SubSeq(StageOrder, 1, 6)
    /\ kickoff_inputs = Inputs(requirements_text, analyzed_requirements, security_controls,
                               ai_security, compliance_requirements)

\* the Run State as a record, and the fields a step changes
RunState ==
    [requirements_text |-> requirements_text, input_file |-> input_file,
     analyzed_requirements |-> analyzed_requirements,
     security_controls |-> security_controls, ai_security |-> ai_security,
     compliance_requirements |-> compliance_requirements,
     validation_report |-> validation_report,
     validation_passed |-> validation_passed,
     validation_score |-> validation_score,
     iteration_count |-> iteration_count,
     final_requirements |-> final_requirements]
ChangedFields == {f \in DOMAIN RunState : RunState'[f] # RunState[f]}
\* the five states that call a stage executor, the handler of each and the
\* output field of each
StageStates ==
    {"ANALYZING", "MAPPING_CONTROLS", "MAPPING_AI_SECURITY", "MAPPING_COMPLIANCE",
     "VALIDATING"}
HandlerOf(state) ==
    CASE state = "ANALYZING"           -> "analyze_requirements"
      [] state = "MAPPING_CONTROLS"    -> "map_security_controls"
      [] state = "MAPPING_AI_SECURITY" -> "identify_ai_security"
      [] state = "MAPPING_COMPLIANCE"  -> "assess_compliance"
      [] state = "VALIDATING"          -> "validate_requirements"
OutputField(state) ==
    CASE state = "ANALYZING"           -> "analyzed_requirements"
      [] state = "MAPPING_CONTROLS"    -> "security_controls"
      [] state = "MAPPING_AI_SECURITY" -> "ai_security"
      [] state = "MAPPING_COMPLIANCE"  -> "compliance_requirements"
      [] state = "VALIDATING"          -> "validation_report"
\* the step is a stage state returning from its one executor call
StageReturns == pc \in StageStates /\ pc' # "ABORTED"
OneExecutorCall == trace' = Append(trace, HandlerOf(pc)) /\ kickoff_inputs' # NoInputs

\* C16 as stated: a step of any of the five stage states that returns has
\* made one executor call and changes no field of the Run State other than
\* the output field of that state.
C16_OneFieldPerStage ==
    [][StageReturns => OneExecutorCall /\ ChangedFields \subseteq {OutputField(pc)}]_vars
\* C16 as amended: the same for the analysis and the three mapping states;
\* the validation state changes no field other than validation_report,
\* validation_score and validation_passed.
C16_OneFieldPerStageThreeForValidation ==
    [][StageReturns =>
          /\ OneExecutorCall
          /\ ChangedFields \subseteq
                (IF pc = "VALIDATING"
                 THEN {"validation_report", "validation_score", "validation_passed"}
                 ELSE {OutputField(pc)})]_vars
C16_Witness ==
    /\ pc = "DECIDING"
    /\ validation_report # << >>
    /\ validation_score = Float(92, 100)
    /\ validation_passed = Bool(TRUE)
    /\ iteration_count = 0
    /\ security_controls # analyzed_requirements

\* C17: when the summary is about to be attempted the JSON report is
\* already on disk and no summary is; the summary step, whether it writes
\* the summary or fails, ends the run without a fault and leaves the JSON
\* report as it is, and a failure prints the warning.
C17_SummaryFailureTolerated ==
    [][/\ pc' = "SUMMARIZING" =>
            /\ out_json' # << >>
            /\ out_json' = final_requirements'
            /\ out_md' = << >>
       /\ pc = "SUMMARIZING" =>
            /\ pc' = "DONE"
            /\ fault' = ""
            /\ out_json' = out_json
            /\ out_md' \in {<< >>, final_requirements}
            /\ md_warning' = (out_md' = << >>)]_vars
C17_Witness ==
    /\ Ended
    /\ Last(trace) = "generate_final_output"
    /\ md_warning
    /\ out_md = << >>
    /\ out_json # << >>
    /\ fault = ""

\* the written report carries every stage output and says, in its metadata,
\* that validation did not pass within the MAX_ITERATIONS iterations
FullReport(doc) ==
    /\ doc.requirements_analysis # << >>
    /\ doc.security_controls # << >>
    /\ doc.ai_ml_security # << >>
    /\ doc.compliance_requirements # << >>
FlaggedBelowThreshold(doc) ==
    /\ ~Truthy(doc.metadata.validation_passed)
    /\ doc.metadata.iterations = MAX_ITERATIONS

ReportedFields ==
    <<validation_score, validation_passed, iteration_count, requirements_text,
      analyzed_requirements, security_controls, ai_security,
      compliance_requirements, validation_report>>

\* C19: generate_final_output executes at most once in a run; once it has
\* executed no other handler executes, the JSON report is not written
\* again and no field of the Run State that the report includes changes.
C19_ReportWrittenOnce ==
    [][/\ Times("generate_final_output")' <= 1
       /\ Executed("generate_final_output") =>
            /\ trace' = trace
            /\ out_json' = out_json
            /\ ReportedFields' = ReportedFields]_vars
C19_Witness ==
    /\ Ended
    /\ Times("generate_final_output") = 1
    /\ out_json = final_requirements
    /\ out_md = out_json
    /\ out_json # << >>

\* C20: the report generate_final_output writes holds, as metadata, the
\* validation_score, validation_passed and iteration_count the Run State
\* has when the handler starts, and with them the input text, the four
\* stage outputs and the validation report of that state, each under its
\* own key.
C20_ReportRecordsState ==
    [][pc = "FINALIZING" =>
          /\ Len(out_json') = 1
          /\ out_json'[1].metadata.validation_score = validation_score
          /\ out_json'[1].metadata.validation_passed = validation_passed
          /\ out_json'[1].metadata.iterations = iteration_count
          /\ out_json'[1].original_requirements = requirements_text
          /\ out_json'[1].requirements_analysis = analyzed_requirements
          /\ out_json'[1].security_controls = security_controls
          /\ out_json'[1].ai_ml_security = ai_security
          /\ out_json'[1].compliance_requirements = compliance_requirements
          /\ out_json'[1].validation_report = validation_report
          /\ DOMAIN out_json'[1].metadata
                = {"validation_score", "validation_passed", "iterations"}]_vars
C20_Witness ==
    /\ pc = "SUMMARIZING"
    /\ out_json # << >>
    /\ out_json[1].metadata.validation_score = Float(92, 100)
    /\ out_json[1].metadata.validation_passed = Bool(TRUE)
    /\ out_json[1].metadata.iterations = 1
    /\ out_json[1].original_requirements = disk_text
    /\ out_json[1].security_controls # out_json[1].ai_ml_security

\* ------------------------------------------------- the prepared catalogs
\* the literal table of prepare_iso27001.py (lines 25-212)
iso_controls ==
    <<
      [standard_name |-> "ISO27001", control_id |-> "A.5.1",
       title |-> "Policies for Information Security",
       description |-> "Information security policy and topic-specific policies should be defined, approved by management, published, communicated to and acknowledged by relevant personnel and relevant interested parties, and reviewed at planned intervals and if significant changes occur.",
       category |-> "Organizational Controls"],
      [standard_name |-> "ISO27001", control_id |-> "A.5.7",
       title |-> "Threat Intelligence",
       description |-> "Information relating to information security threats should be collected and analyzed to produce threat intelligence.",
       category |-> "Organizational Controls"],
      [standard_name |-> "ISO27001", control_id |-> "A.5.10",
       title |-> "Acceptable Use of Information and Assets",
       description |-> "Rules for the acceptable use and procedures for handling information and other associated assets should be identified, documented and implemented.",
       category |-> "Organizational Controls"],
      [standard_name |-> "ISO27001", control_id |-> "A.5.14",
       title |-> "Information Transfer",
       description |-> "Information transfer rules, procedures, or agreements should be in place for all types of transfer facilities within the organization and between the organization and other parties.",
       category |-> "Organizational Controls"],
      [standard_name |-> "ISO27001", control_id |-> "A.5.23",
       title |-> "Information Security for Cloud Services",
       description |-> "Processes for acquisition, use, management and exit from cloud services should be established in accordance with the organization's information security requirements.",
       category |-> "Organizational Controls"],
      [standard_name |-> "ISO27001", control_id |-> "A.6.1",
       title |-> "Screening",
       description |-> "Background verification checks on all candidates for employment should be carried out prior to joining the organization and on an ongoing basis taking into consideration applicable laws, regulations and ethics and be proportional to the business requirements, the classification of the information to be accessed and the perceived risks.",
       category |-> "People Controls"],
      [standard_name |-> "ISO27001", control_id |-> "A.6.2",
       title |-> "Terms and Conditions of Employment",
       description |-> "The employment contractual agreements should state the employee's and the organization's responsibilities for information security.",
       category |-> "People Controls"],
      [standard_name |-> "ISO27001", control_id |-> "A.6.3",
       title |-> "Information Security Awareness, Education and Training",
       description |-> "Personnel of the organization and relevant interested parties should receive appropriate information security awareness, education and training and regular updates of the organization's information security policy, topic-specific policies and procedures, as relevant for their job function.",
       category |-> "People Controls"],
      [standard_name |-> "ISO27001", control_id |-> "A.6.4",
       title |-> "Disciplinary Process",
       description |-> "A disciplinary process should be formalized and communicated to take action against personnel and other relevant interested parties who have committed an information security policy violation.",
       category |-> "People Controls"],
      [standard_name |-> "ISO27001", control_id |-> "A.7.1",
       title |-> "Physical Security Perimeters",
       description |-> "Security perimeters should be defined and used to protect areas that contain information and other associated assets.",
       category |-> "Physical Controls"],
      [standard_name |-> "ISO27001", control_id |-> "A.7.2",
       title |-> "Physical Entry",
       description |-> "Secure areas should be protected by appropriate entry controls and access points.",
       category |-> "Physical Controls"],
      [standard_name |-> "ISO27001", control_id |-> "A.7.4",
       title |-> "Physical Security Monitoring",
       description |-> "Premises should be continuously monitored for unauthorized physical access.",
       category |-> "Physical Controls"],
      [standard_name |-> "ISO27001", control_id |-> "A.7.7",
       title |-> "Clear Desk and Clear Screen",
       description |-> "Clear desk rules for papers and removable storage media and clear screen rules for information processing facilities should be defined and appropriately enforced.",
       category |-> "Physical Controls"],
      [standard_name |-> "ISO27001", control_id |-> "A.8.1",
       title |-> "User Endpoint Devices",
       description |-> "Information stored on, processed by or accessible via user endpoint devices should be protected.",
       category |-> "Technological Controls"],
      [standard_name |-> "ISO27001", control_id |-> "A.8.2",
       title |-> "Privileged Access Rights",
       description |-> "The allocation and use of privileged access rights should be restricted and managed.",
       category |-> "Technological Controls"],
      [standard_name |-> "ISO27001", control_id |-> "A.8.3",
       title |-> "Information Access Restriction",
       description |-> "Access to information and other associated assets should be restricted in accordance with the established topic-specific policy on access control.",
       category |-> "Technological Controls"],
      [standard_name |-> "ISO27001", control_id |-> "A.8.5",
       title |-> "Secure Authentication",
       description |-> "Secure authentication technologies and procedures should be implemented based on information access restrictions and the topic-specific policy on access control.",
       category |-> "Technological Controls"],
      [standard_name |-> "ISO27001", control_id |-> "A.8.9",
       title |-> "Configuration Management",
       description |-> "Configurations, including security configurations, of hardware, software, services and networks should be established, documented, implemented, monitored and reviewed.",
       category |-> "Technological Controls"],
      [standard_name |-> "ISO27001", control_id |-> "A.8.10",
       title |-> "Information Deletion",
       description |-> "Information stored in information systems, devices or in any other storage media should be deleted when no longer required.",
       category |-> "Technological Controls"],
      [standard_name |-> "ISO27001", control_id |-> "A.8.11",
       title |-> "Data Masking",
       description |-> "Data masking should be used in accordance with the organization's topic-specific policy on access control and other related topic-specific policies, and business requirements, taking applicable legislation into consideration.",
       category |-> "Technological Controls"],
      [standard_name |-> "ISO27001", control_id |-> "A.8.16",
       title |-> "Monitoring Activities",
       description |-> "Networks, systems and applications should be monitored for anomalous behavior and appropriate action taken to evaluate potential information security incidents.",
       category |-> "Technological Controls"],
      [standard_name |-> "ISO27001", control_id |-> "A.8.23",
       title |-> "Web Filtering",
       description |-> "Access to external websites should be managed to reduce exposure to malicious content.",
       category |-> "Technological Controls"],
      [standard_name |-> "ISO27001", control_id |-> "A.8.24",
       title |-> "Use of Cryptography",
       description |-> "Rules for the effective use of cryptography, including cryptographic key management, should be defined and implemented.",
       category |-> "Technological Controls"],
      [standard_name |-> "ISO27001", control_id |-> "A.8.26",
       title |-> "Application Security Requirements",
       description |-> "Information security requirements should be identified, specified and approved when developing or acquiring applications.",
       category |-> "Technological Controls"],
      [standard_name |-> "ISO27001", control_id |-> "A.8.28",
       title |-> "Secure Coding",
       description |-> "Secure coding principles should be applied to software development.",
       category |-> "Technological Controls"],
      [standard_name |-> "ISO27001", control_id |-> "A.8.31",
       title |-> "Separation of Development, Test and Production Environments",
       description |-> "Development, testing and production environments should be separated and secured.",
       category |-> "Technological Controls"]
    >>

\* the literal table of prepare_nist.py (lines 25-199)
nist_controls ==
    <<
      [standard_name |-> "NIST", control_id |-> "ID.AM-1",
       title |-> "Physical Devices and Systems Inventory",
       description |-> "Physical devices and systems within the organization are inventoried.",
       category |-> "Asset Management"],
      [standard_name |-> "NIST", control_id |-> "ID.AM-2",
       title |-> "Software Platforms and Applications Inventory",
       description |-> "Software platforms and applications within the organization are inventoried.",
       category |-> "Asset Management"],
      [standard_name |-> "NIST", control_id |-> "ID.RA-1",
       title |-> "Asset Vulnerabilities Identification",
       description |-> "Asset vulnerabilities are identified and documented.",
       category |-> "Risk Assessment"],
      [standard_name |-> "NIST", control_id |-> "ID.RA-2",
       title |-> "Cyber Threat Intelligence",
       description |-> "Cyber threat intelligence is received from information sharing forums and sources.",
       category |-> "Risk Assessment"],
      [standard_name |-> "NIST", control_id |-> "ID.GV-1",
       title |-> "Organizational Cybersecurity Policy",
       description |-> "Organizational cybersecurity policy is established and communicated.",
       category |-> "Governance"],
      [standard_name |-> "NIST", control_id |-> "PR.AC-1",
       title |-> "Authorized User Identity Management",
       description |-> "Identities and credentials are issued, managed, verified, revoked, and audited for authorized devices, users and processes.",
       category |-> "Identity Management and Access Control"],
      [standard_name |-> "NIST", control_id |-> "PR.AC-3",
       title |-> "Remote Access Management",
       description |-> "Remote access is managed.",
       category |-> "Identity Management and Access Control"],
      [standard_name |-> "NIST", control_id |-> "PR.AC-4",
       title |-> "Access Permissions and Authorizations",
       description |-> "Access permissions and authorizations are managed, incorporating the principles of least privilege and separation of duties.",
       category |-> "Identity Management and Access Control"],
      [standard_name |-> "NIST", control_id |-> "PR.AT-1",
       title |-> "Security Awareness Training",
       description |-> "All users are informed and trained on their cybersecurity responsibilities.",
       category |-> "Awareness and Training"],
      [standard_name |-> "NIST", control_id |-> "PR.DS-1",
       title |-> "Data-at-Rest Protection",
       description |-> "Data-at-rest is protected using encryption and other appropriate mechanisms.",
       category |-> "Data Security"],
      [standard_name |-> "NIST", control_id |-> "PR.DS-2",
       title |-> "Data-in-Transit Protection",
       description |-> "Data-in-transit is protected using encryption and other security measures.",
       category |-> "Data Security"],
      [standard_name |-> "NIST", control_id |-> "PR.DS-5",
       title |-> "Data Leak Protection",
       description |-> "Protections against data leaks are implemented.",
       category |-> "Data Security"],
      [standard_name |-> "NIST", control_id |-> "PR.IP-1",
       title |-> "Baseline Configuration",
       description |-> "A baseline configuration of information technology/industrial control systems is created and maintained incorporating security principles.",
       category |-> "Information Protection Processes"],
      [standard_name |-> "NIST", control_id |-> "DE.AE-1",
       title |-> "Baseline Network Operations",
       description |-> "A baseline of network operations and expected data flows for users and systems is established and managed.",
       category |-> "Anomalies and Events"],
      [standard_name |-> "NIST", control_id |-> "DE.AE-2",
       title |-> "Detected Events Analysis",
       description |-> "Detected events are analyzed to understand attack targets and methods.",
       category |-> "Anomalies and Events"],
      [standard_name |-> "NIST", control_id |-> "DE.CM-1",
       title |-> "Network Monitoring",
       description |-> "The network is monitored to detect potential cybersecurity events.",
       category |-> "Security Continuous Monitoring"],
      [standard_name |-> "NIST", control_id |-> "DE.CM-3",
       title |-> "Personnel Activity Monitoring",
       description |-> "Personnel activity is monitored to detect potential cybersecurity events.",
       category |-> "Security Continuous Monitoring"],
      [standard_name |-> "NIST", control_id |-> "RS.RP-1",
       title |-> "Response Plan Execution",
       description |-> "Response plan is executed during or after an incident.",
       category |-> "Response Planning"],
      [standard_name |-> "NIST", control_id |-> "RS.CO-1",
       title |-> "Personnel Incident Notification",
       description |-> "Personnel know their roles and order of operations when a response is needed.",
       category |-> "Communications"],
      [standard_name |-> "NIST", control_id |-> "RS.AN-1",
       title |-> "Incident Investigation",
       description |-> "Notifications from detection systems are investigated.",
       category |-> "Analysis"],
      [standard_name |-> "NIST", control_id |-> "RS.MI-1",
       title |-> "Incident Containment",
       description |-> "Incidents are contained to prevent further damage.",
       category |-> "Mitigation"],
      [standard_name |-> "NIST", control_id |-> "RC.RP-1",
       title |-> "Recovery Plan Execution",
       description |-> "Recovery plan is executed during or after a cybersecurity incident.",
       category |-> "Recovery Planning"],
      [standard_name |-> "NIST", control_id |-> "RC.IM-1",
       title |-> "Recovery Plan Implementation",
       description |-> "Recovery plans incorporate lessons learned from past incidents.",
       category |-> "Improvements"],
      [standard_name |-> "NIST", control_id |-> "RC.CO-1",
       title |-> "Public Relations Management",
       description |-> "Public relations are managed during recovery operations.",
       category |-> "Communications"]
    >>

\* the literal table of prepare_owasp_asvs.py (lines 25-145)
owasp_controls ==
    <<
      [standard_name |-> "OWASP", control_id |-> "V1.2.1",
       title |-> "Security Architecture Documentation",
       description |-> "Verify the use of a secure software development lifecycle that addresses security in all stages of development.",
       category |-> "Architecture, Design and Threat Modeling"],
      [standard_name |-> "OWASP", control_id |-> "V2.1.1",
       title |-> "Password Strength Requirements",
       description |-> "Verify that user set passwords are at least 12 characters in length.",
       category |-> "Authentication"],
      [standard_name |-> "OWASP", control_id |-> "V2.1.7",
       title |-> "Password Complexity",
       description |-> "Verify that passwords submitted during account registration, login, and password change are checked against a set of breached passwords either locally or using an external API.",
       category |-> "Authentication"],
      [standard_name |-> "OWASP", control_id |-> "V3.1.1",
       title |-> "Session Token Requirements",
       description |-> "Verify the application never reveals session tokens in URL parameters or error messages.",
       category |-> "Session Management"],
      [standard_name |-> "OWASP", control_id |-> "V4.1.1",
       title |-> "Access Control Enforcement",
       description |-> "Verify that the application enforces access control rules on a trusted service layer, especially if client-side access control is present and could be bypassed.",
       category |-> "Access Control"],
      [standard_name |-> "OWASP", control_id |-> "V5.1.1",
       title |-> "Input Validation",
       description |-> "Verify that the application has defenses against HTTP parameter pollution attacks, particularly if the application framework makes no distinction about the source of request parameters.",
       category |-> "Validation, Sanitization and Encoding"],
      [standard_name |-> "OWASP", control_id |-> "V5.3.1",
       title |-> "Output Encoding",
       description |-> "Verify that output encoding is relevant for the interpreter and context required.",
       category |-> "Validation, Sanitization and Encoding"],
      [standard_name |-> "OWASP", control_id |-> "V6.2.1",
       title |-> "Cryptographic Standards",
       description |-> "Verify that all cryptographic modules fail securely, and errors are handled in a way that does not enable Padding Oracle attacks.",
       category |-> "Cryptography"],
      [standard_name |-> "OWASP", control_id |-> "V7.1.1",
       title |-> "Error Handling",
       description |-> "Verify that the application does not log credentials or payment details. Session tokens should only be stored in logs in an irreversible, hashed form.",
       category |-> "Error Handling and Logging"],
      [standard_name |-> "OWASP", control_id |-> "V8.1.1",
       title |-> "Data Protection in Transit",
       description |-> "Verify the application protects sensitive data from being cached in server components such as load balancers and application caches.",
       category |-> "Data Protection"],
      [standard_name |-> "OWASP", control_id |-> "V8.2.1",
       title |-> "Data Protection at Rest",
       description |-> "Verify that all sensitive data is sent to the server in the HTTP message body or headers, and that query string parameters from any HTTP verb do not contain sensitive data.",
       category |-> "Data Protection"],
      [standard_name |-> "OWASP", control_id |-> "V9.1.1",
       title |-> "Communications Security",
       description |-> "Verify that TLS is used for all client connectivity, and does not fall back to insecure or unencrypted communications.",
       category |-> "Communications"],
      [standard_name |-> "OWASP", control_id |-> "V10.1.1",
       title |-> "Malicious Code Protection",
       description |-> "Verify that a code analysis tool is in use that can detect potentially malicious code, such as time functions, unsafe file operations and network connections.",
       category |-> "Malicious Code"],
      [standard_name |-> "OWASP", control_id |-> "V11.1.1",
       title |-> "Business Logic Security",
       description |-> "Verify the application will only process business logic flows for the same user in sequential step order and without skipping steps.",
       category |-> "Business Logic"],
      [standard_name |-> "OWASP", control_id |-> "V12.1.1",
       title |-> "File Upload Validation",
       description |-> "Verify that the application will not accept large files that could fill up storage or cause a denial of service.",
       category |-> "File and Resources"],
      [standard_name |-> "OWASP", control_id |-> "V13.1.1",
       title |-> "API Security",
       description |-> "Verify that all application components, libraries, modules, frameworks, platform, and operating systems are current and patched.",
       category |-> "API and Web Service"],
      [standard_name |-> "OWASP", control_id |-> "V14.1.1",
       title |-> "Configuration Hardening",
       description |-> "Verify that the application build and deployment processes are performed in a secure and repeatable way, such as CI / CD automation.",
       category |-> "Configuration"]
    >>

\* an ingestion that reads the standard under the key 'standard', which no
\* record has, so that the default is stored
IngestedObjectUnknownStandard(control) ==
    [standard |-> "Unknown",
     control_id |-> control.control_id,
     title |-> control.title,
     description |-> control.description,
     category |-> control.category,
     full_text |-> control.title \o " " \o control.description \o " " \o control.category]

\* the object ingest_security_standards stores for a control record
\* (tools/weaviate_setup.py, lines 103-112); control is a record, so every
\* control.get(...) finds its key
IngestedObject(control) ==
    [standard |-> control.standard_name,
     control_id |-> control.control_id,
     title |-> control.title,
     description |-> control.description,
     category |-> control.category,
     full_text |-> control.title \o " " \o control.description \o " " \o control.category]

\* ----------------------------------------------------- the search tool
\* tools/weaviate_tool.py. A Python value given as an argument of _run:
\* its type and payload. items are the elements of a list, fields the
\* entries of a dict in insertion order; a float is num/den, or, with
\* str = "inf" or "nan", no number.
ArgValue(type, num, den, str, items, fields) ==
    [type |-> type, num |-> num, den |-> den, str |-> str, items |-> items,
     fields |-> fields]
ArgNone         == ArgValue("NoneType", 0, 1, "", << >>, << >>)
ArgStr(s)       == ArgValue("str", 0, 1, s, << >>, << >>)
ArgInt(n)       == ArgValue("int", n, 1, "", << >>, << >>)
ArgBool(b)      == ArgValue("bool", IF b THEN 1 ELSE 0, 1, "", << >>, << >>)
ArgFloat(n, d)  == ArgValue("float", n, d, "", << >>, << >>)
ArgInf          == ArgValue("float", 0, 1, "inf", << >>, << >>)
ArgNaN          == ArgValue("float", 0, 1, "nan", << >>, << >>)
ArgList(items)  == ArgValue("list", 0, 1, "", items, << >>)
ArgDict(fields) == ArgValue("dict", 0, 1, "", << >>, fields)
Entry(key, value) == [key |-> key, value |-> value]

\* bool(v)
ArgTruthy(v) ==
    CASE v.type = "NoneType" -> FALSE
      [] v.type = "str"  -> v.str # ""
      [] v.type \in {"int", "bool"} -> v.num # 0
      [] v.type = "float" -> v.str # "" \/ v.num # 0
      [] v.type = "list" -> v.items # << >>
      [] v.type = "dict" -> v.fields # << >>

\* key in d, d[key] and d.get(key, default) for the entries of a dict
HasKey(entries, key) == \E i \in DOMAIN entries : entries[i].key = key
ValueAt(entries, key) ==
    entries[CHOOSE i \in DOMAIN entries : entries[i].key = key].value
GetOr(entries, key, default) ==
    IF HasKey(entries, key) THEN ValueAt(entries, key) ELSE default

\* lines 56-65: a query that is None is looked up in kwargs under "query",
\* "search" and "q", in this order
QueryFromKwargs(query, kwargs) ==
    IF query # ArgNone THEN query
    ELSE IF HasKey(kwargs, "query") THEN ValueAt(kwargs, "query")
    ELSE IF HasKey(kwargs, "search") THEN ValueAt(kwargs, "search")
    ELSE IF HasKey(kwargs, "q") THEN ValueAt(kwargs, "q")
    ELSE query

\* lines 72-74: the entries of kwargs whose value is a non-empty list with a
\* dict as its first element
ListOfDictEntries(kwargs) ==
    {i \in DOMAIN kwargs :
        /\ kwargs[i].value.type = "list"
        /\ kwargs[i].value.items # << >>
        /\ kwargs[i].value.items[1].type = "dict"}
Min(S) == CHOOSE i \in S : \A j \in S : i <= j

\* a recovery that takes the query of the first element and keeps the
\* limit and the filter of the call
RecoveredQueryOnly(c) ==
    LET query == QueryFromKwargs(c.query, c.kwargs)
        found == ListOfDictEntries(c.kwargs)
    IN  IF query = ArgNone /\ found # {}
        THEN [query |-> GetOr(c.kwargs[Min(found)].value.items[1].fields, "query", ArgNone),
              limit |-> c.limit, standard_filter |-> c.standard_filter]
        ELSE [query |-> query, limit |-> c.limit, standard_filter |-> c.standard_filter]

\* lines 56-78: the query, limit and standard_filter the call goes on with
Recovered(c) ==
    LET query == QueryFromKwargs(c.query, c.kwargs)
        found == ListOfDictEntries(c.kwargs)
    IN  IF query = ArgNone /\ found # {}
        THEN LET first == c.kwargs[Min(found)].value.items[1].fields
             IN  [query |-> GetOr(first, "query", ArgNone),
                  limit |-> GetOr(first, "limit", c.limit),
                  standard_filter |-> GetOr(first, "standard_filter", c.standard_filter)]
        ELSE [query |-> query, limit |-> c.limit, standard_filter |-> c.standard_filter]

\* line 81: the query passes when it is a str (None is no str)
QueryAccepted(query) == query.type = "str"
\* the type the message of line 83 names
NamedType(query) == IF ArgTruthy(query) THEN query.type ELSE "None"

\* the value of a str made of decimal digits, read after the value acc
RECURSIVE NumeralValue(_, _)
NumeralValue(s, acc) ==
    IF s = "" THEN acc ELSE NumeralValue(Tail(s), 10 * acc + DigitValue(Head(s)))
RECURSIVE AllDigits(_)
AllDigits(s) == s = "" \/ (Head(s) \in Digits /\ AllDigits(Tail(s)))
RECURSIVE StripLeft(_)
StripLeft(s) == IF s # "" /\ Head(s) = " " THEN StripLeft(Tail(s)) ELSE s
RECURSIVE StripRight(_)
StripRight(s) ==
    IF s # "" /\ SubSeq(s, Len(s), Len(s)) = " "
    THEN StripRight(SubSeq(s, 1, Len(s) - 1)) ELSE s
\* int(s) for a str: blanks around it are dropped, one sign may lead, and
\* what is left must be decimal digits, at least one
IntOfStr(s) ==
    LET t == StripRight(StripLeft(s))
        signed == t # "" /\ Head(t) \in {"-", "+"}
        digits == IF signed THEN Tail(t) ELSE t
    IN  IF digits = "" \/ ~AllDigits(digits) THEN [exc |-> "ValueError", value |-> 0]
        ELSE [exc |-> "",
              value |-> IF signed /\ Head(t) = "-"
                        THEN 0 - NumeralValue(digits, 0) ELSE NumeralValue(digits, 0)]
\* int(v): a float is truncated toward zero, nan has no int (ValueError),
\* an infinity has none either (OverflowError); None, a list and a dict
\* raise TypeError
IntOf(v) ==
    CASE v.type \in {"int", "bool"} -> [exc |-> "", value |-> v.num]
      [] v.type = "str" -> IntOfStr(v.str)
      [] v.type = "float" /\ v.str = "inf" -> [exc |-> "OverflowError", value |-> 0]
      [] v.type = "float" /\ v.str = "nan" -> [exc |-> "ValueError", value |-> 0]
      [] v.type = "float" /\ v.str = "" ->
            [exc |-> "",
             value |-> IF v.num >= 0 THEN v.num \div v.den ELSE 0 - ((0 - v.num) \div v.den)]
      [] OTHER -> [exc |-> "TypeError", value |-> 0]

\* lines 88-95: an int (a bool is one) is kept as it is, anything else goes
\* through int(); ValueError and TypeError are caught and answered with the
\* message of lines 92-95, any other exception leaves _run
CoercedLimit(limit) ==
    IF limit.type \in {"int", "bool"} THEN [exc |-> "", caught |-> FALSE, value |-> limit]
    ELSE [exc |-> IntOf(limit).exc,
          caught |-> IntOf(limit).exc \in {"ValueError", "TypeError"},
          value |-> ArgInt(IntOf(limit).value)]

\* str.upper() on the letters of the Latin alphabet
LowerLetters == "abcdefghijklmnopqrstuvwxyz"
UpperLetters == "ABCDEFGHIJKLMNOPQRSTUVWXYZ"
RECURSIVE MapChar(_, _, _)
MapChar(c, from, to) ==
    IF from = "" THEN c
    ELSE IF Head(from) = c THEN Head(to)
    ELSE MapChar(c, Tail(from), Tail(to))
RECURSIVE upper(_)
upper(s) == IF s = "" THEN "" ELSE MapChar(Head(s), LowerLetters, UpperLetters) \o upper(Tail(s))

\* lines 116-121
standard_map ==
    ("OWASP" :> "OWASP") @@ ("NIST" :> "NIST") @@ ("ISO27001" :> "ISO27001")
        @@ ("ISO" :> "ISO27001")
\* a filter looked up in the table as it was given
NormalizedFilterCaseSensitive(standard_filter) ==
    IF standard_filter \in DOMAIN standard_map
    THEN standard_map[standard_filter] ELSE standard_filter
\* line 122: standard_map.get(standard_filter.upper(), standard_filter)
NormalizedFilter(standard_filter) ==
    IF upper(standard_filter) \in DOMAIN standard_map
    THEN standard_map[upper(standard_filter)] ELSE standard_filter

\* props.get(key, default) on the properties of an object
Property(props, key, default) == IF key \in DOMAIN props THEN props[key] ELSE default
\* lines 136-142: the block of the i-th object, by the values its five
\* lines show
ResultBlock(i, props) ==
    [number |-> i,
     standard |-> Property(props, "standard", "Unknown"),
     req_id |-> Property(props, "req_id", "N/A"),
     chapter_id |-> Property(props, "chapter_id", ""),
     chapter_name |-> Property(props, "chapter_name", ""),
     section_id |-> Property(props, "section_id", ""),
     section_name |-> Property(props, "section_name", ""),
     level |-> Property(props, "level", "N/A"),
     req_description |-> Property(props, "req_description", "No description")]

\* The str _run returns, by its content: the blocks joined by "\n" (line
\* 145), the sentinel of line 131, or one of the three error messages
\* (lines 82-86, 92-95, 151).
NO_RESULTS == "No relevant security controls found."
Returned(kind, text, blocks) == [kind |-> kind, text |-> text, blocks |-> blocks]
BlocksResult(objects) ==
    Returned("blocks", "", [i \in DOMAIN objects |-> ResultBlock(i, objects[i])])
SentinelResult == Returned("sentinel", NO_RESULTS, << >>)
QueryError(query) ==
    Returned("error", "Error: 'query' must be a string, got " \o NamedType(query), << >>)
LimitError(limit) ==
    Returned("error", "Error: 'limit' must be an integer, got " \o limit.type, << >>)
BackendError(message) ==
    Returned("error", "Error querying security standards database: " \o message, << >>)
\* the characters of the str: none only for a result without text or blocks
IsEmptyStr(r) == r.text = "" /\ r.blocks = << >>

\* the flow has not been kicked off
FlowIdle ==
    /\ requirements_text = << >>
    /\ input_file = ExistingFile
    /\ analyzed_requirements = << >>
    /\ security_controls = << >>
    /\ ai_security = << >>
    /\ compliance_requirements = << >>
    /\ validation_report = << >>
    /\ validation_passed = Bool(FALSE)
    /\ validation_score = Float(0, 1)
    /\ iteration_count = 0
    /\ final_requirements = << >>
    /\ pc = "LOADING"
    /\ caller = "flow"
    /\ fault = ""
    /\ disk_text = InputText(1)
    /\ out_json = << >>
    /\ out_md = << >>
    /\ md_warning = FALSE
    /\ trace = << >>
    /\ verdict = NoVerdict
    /\ kickoff_inputs = NoInputs

\* the number of records of each catalog the collection holds
MaxIndexed == 2

Reverse(s) == [i \in DOMAIN s |-> s[Len(s) + 1 - i]]
\* the objects ingestion makes of the first n records of the three catalogs
IngestedCatalogs(n) ==
    [i \in 1..n |-> IngestedObject(iso_controls[i])]
        \o [i \in 1..n |-> IngestedObject(nist_controls[i])]
        \o [i \in 1..n |-> IngestedObject(owasp_controls[i])]
\* the collection as the backend ranks it for a query: empty, or its
\* objects in one of two orders
Indexes == {<< >>, IngestedCatalogs(MaxIndexed), Reverse(IngestedCatalogs(MaxIndexed))}

\* the arguments of one call
Call(query, limit, standard_filter, kwargs) ==
    [query |-> query, limit |-> limit, standard_filter |-> standard_filter, kwargs |-> kwargs]
DEFAULT_LIMIT == 4
SomeQueries ==
    {ArgNone, ArgStr("encryption"), ArgStr(""), ArgList(<<ArgStr("encryption")>>), ArgInt(7)}
SomeLimits ==
    {ArgInt(DEFAULT_LIMIT), ArgInt(1), ArgInt(0), ArgInt(-1), ArgBool(FALSE), ArgStr("2"),
     ArgStr(" 3 "), ArgStr("two"), ArgFloat(5, 2), ArgInf, ArgNaN, ArgNone}
SomeFilters ==
    {ArgNone, ArgStr(""), ArgStr("iso"), ArgStr("Owasp"), ArgStr("NIST"), ArgStr("ISO27001"),
     ArgStr("iSo27001"), ArgStr("PCI"), ArgInt(5)}
\* an argument-object, as the input schema describes one
ArgumentObject(query, limit, standard_filter) ==
    ArgDict(<<Entry("query", query), Entry("limit", limit),
              Entry("standard_filter", standard_filter)>>)
SomeKwargs ==
    {<<Entry("search", ArgStr("access control"))>>,
     <<Entry("q", ArgList(<<ArgStr("access control")>>))>>,
     <<Entry("input", ArgList(<<ArgumentObject(ArgStr("logging"), ArgInt(2), ArgStr("nist"))>>))>>,
     <<Entry("input", ArgList(<<ArgumentObject(ArgStr("logging"), ArgStr("5"), ArgNone),
                                ArgumentObject(ArgStr("backup"), ArgInt(1), ArgNone)>>))>>,
     <<Entry("input", ArgList(<<ArgDict(<<Entry("query", ArgStr("logging"))>>)>>))>>,
     <<Entry("input", ArgList(<<ArgDict(<<Entry("limit", ArgInt(2))>>)>>))>>,
     <<Entry("input", ArgList(<<ArgumentObject(ArgList(<<ArgStr("logging")>>), ArgInt(2),
                                               ArgNone)>>))>>,
     <<Entry("input", ArgList(<<ArgStr("logging")>>))>>,
     <<Entry("input", ArgList(<< >>))>>,
     <<Entry("previous", ArgList(<<ArgStr("1. [NIST] N/A")>>)),
       Entry("input", ArgList(<<ArgumentObject(ArgStr("logging"), ArgInt(0), ArgStr("ISO"))>>))>>,
     <<Entry("verbose", ArgBool(TRUE))>>}
\* the calls considered: every kind of query, limit and filter given
\* directly, and every shape of extra arguments with and without a direct
\* query
Calls ==
    {Call(q, l, f, << >>) : q \in SomeQueries, l \in SomeLimits, f \in SomeFilters}
        \cup {Call(q, ArgInt(DEFAULT_LIMIT), f, k) :
                  q \in {ArgNone, ArgStr("encryption")}, f \in {ArgNone, ArgStr("owasp")},
                  k \in SomeKwargs}

\* Filter.by_property("standard").equal(value), or no filter
NoFilter == [applied |-> FALSE, value |-> ""]
StandardEquals(value) == [applied |-> TRUE, value |-> value]
\* a near_text request
Request(query, limit, filter) == [query |-> query, limit |-> limit, filter |-> filter]
Matching(objects, filter) ==
    SelectSeq(objects, LAMBDA o : ~filter.applied \/ o.standard = filter.value)
\* The responses of collection.query.near_text (lines 123-127): the request
\* may fail; with a limit of at least 1 the backend answers with the
\* nearest matching objects, at most limit of them; what it does with a
\* limit below 1 is not in this repository, so that it may fail or answer
\* with any number of the nearest matching objects.
Failed(exc) == [exc |-> exc, objects |-> << >>]
Answered(objects) == [exc |-> "", objects |-> objects]
near_text(objects, request) ==
    LET m == Matching(objects, request.filter)
    IN  {Failed("WeaviateQueryError")}
            \cup IF request.limit.num >= 1
                 THEN {Answered(SubSeq(m, 1, Min({request.limit.num, Len(m)})))}
                 ELSE {Answered(SubSeq(m, 1, n)) : n \in 0..Len(m)}

\* a call is about to run, with the flow and the catalog scripts at rest
InitSearch ==
    /\ FlowIdle
    /\ CatalogIdle
    /\ search_pc = "CALLED"
    /\ call \in Calls
    /\ index \in Indexes
    /\ result = << >>
    /\ raised = ""
    /\ sent = << >>
    /\ opened = 0
    /\ closed = 0

\* a close() in the body of the try, which an exception passes by
CloseCallsAtEndOfBody(excepted) == IF excepted THEN 0 ELSE 1
\* lines 147-148: the finally clause calls client.close() once, whether the
\* body of the inner try ended in an exception or not
CloseCalls(excepted) == 1

\* _run returns the str r without having connected
ReturnUnconnected(r) ==
    /\ search_pc' = "RETURNED"
    /\ result' = r
    /\ UNCHANGED <<raised, sent, opened, closed>>

\* WeaviateQueryTool._run (lines 42-151)
WeaviateQueryTool_run ==
    /\ search_pc = "CALLED"
    /\ LET r == Recovered(call)
           lim == CoercedLimit(r.limit)
       IN  IF ~QueryAccepted(r.query) THEN ReturnUnconnected(QueryError(r.query))
           ELSE IF lim.exc # "" /\ lim.caught THEN ReturnUnconnected(LimitError(r.limit))
           ELSE IF lim.exc # ""
           THEN \* the exception of int() is none of those line 91 names
                /\ search_pc' = "RAISED"
                /\ raised' = lim.exc
                /\ UNCHANGED <<result, sent, opened, closed>>
           ELSE \E connected, closes \in BOOLEAN :
                /\ search_pc' = "RETURNED"
                /\ UNCHANGED raised
                /\ IF ~connected
                   THEN \* connect_to_local raised (lines 99-103, 150)
                        /\ result' = BackendError("WeaviateStartUpError")
                        /\ UNCHANGED <<sent, opened, closed>>
                   ELSE /\ opened' = opened + 1
                        /\ IF ArgTruthy(r.standard_filter) /\ r.standard_filter.type # "str"
                           THEN \* .upper() of line 122 on a value that has none
                                /\ sent' = sent
                                /\ closed' = closed + CloseCalls(TRUE)
                                /\ result' = IF closes THEN BackendError("AttributeError")
                                             ELSE BackendError("WeaviateClosedClientError")
                           ELSE LET filter == IF ArgTruthy(r.standard_filter)
                                              THEN StandardEquals(
                                                       NormalizedFilter(r.standard_filter.str))
                                              ELSE NoFilter
                                    request == Request(r.query, lim.value, filter)
                                IN  \E response \in near_text(index, request) :
                                        /\ sent' = Append(sent, request)
                                        /\ closed' = closed + CloseCalls(response.exc # "")
                                        /\ result' =
                                             IF ~closes
                                             THEN BackendError("WeaviateClosedClientError")
                                             ELSE IF response.exc # ""
                                             THEN BackendError(response.exc)
                                             ELSE IF response.objects = << >>
                                             THEN SentinelResult
                                             ELSE BlocksResult(response.objects)
    /\ UNCHANGED <<call, index>>
    /\ UNCHANGED <<flow_vars, catalog_vars>>

NextSearch == WeaviateQueryTool_run
SpecSearch == InitSearch /\ [][NextSearch]_vars

\* the call has run to its end, one way or the other
CallEnded == search_pc \in {"RETURNED", "RAISED"}
ReturnedKinds == {"blocks", "sentinel", "error"}

\* C21: every call of the search ends by returning a string: no exception
\* leaves it, whatever the shape of its arguments (missing, wrongly typed,
\* nested) and whatever fails in the backend (connecting, querying,
\* closing).
C21_AlwaysReturnsString ==
    CallEnded =>
        /\ search_pc = "RETURNED"
        /\ raised = ""
        /\ result.kind \in ReturnedKinds

\* the call queried the backend and returned what the backend answered
SearchSucceeded ==
    search_pc = "RETURNED" /\ sent # << >> /\ result.kind \in {"blocks", "sentinel"}
\* the objects of the collection the request of the call matches, nearest first
Matches == Matching(index, sent[1].filter)

\* C22: a successful search with limit n returns at most n result blocks,
\* numbered 1, 2, ... and in the order of the index; when nothing matches it
\* returns the sentence 'No relevant security controls found.', and in no
\* case the empty string.
C22_AtMostLimitBlocksInOrder ==
    SearchSucceeded =>
        /\ Len(result.blocks) <= sent[1].limit.num
        /\ Len(result.blocks) <= Len(Matches)
        /\ \A i \in DOMAIN result.blocks : result.blocks[i] = ResultBlock(i, Matches[i])
        /\ Matches = << >> => result = SentinelResult
        /\ ~IsEmptyStr(result)

\* the names under which lines 58-65 look for a query among the extra
\* arguments
QueryKeys == {"query", "search", "q"}
\* no query was given directly: neither as the parameter nor under one of
\* the names of QueryKeys
NoDirectQuery ==
    /\ call.query = ArgNone
    /\ \A i \in DOMAIN call.kwargs :
           call.kwargs[i].key \in QueryKeys => call.kwargs[i].value = ArgNone
\* the extra arguments that hold a non-empty list whose first element is an
\* argument-object
HoldsArgumentObject(i) ==
    /\ call.kwargs[i].value.type = "list"
    /\ call.kwargs[i].value.items # << >>
    /\ call.kwargs[i].value.items[1].type = "dict"
RecoveryCase == NoDirectQuery /\ \E i \in DOMAIN call.kwargs : HoldsArgumentObject(i)
\* the argument-object of the recovery case: the first element of the first
\* such list
FirstArgumentObject ==
    LET i == CHOOSE i \in DOMAIN call.kwargs :
                 HoldsArgumentObject(i) /\ \A j \in 1..(i - 1) : ~HoldsArgumentObject(j)
    IN  call.kwargs[i].value.items[1].fields
\* the value the argument-object gives a name, else the one of the call
Taken(name, given) ==
    IF \E k \in DOMAIN FirstArgumentObject : FirstArgumentObject[k].key = name
    THEN FirstArgumentObject[CHOOSE k \in DOMAIN FirstArgumentObject :
                                 FirstArgumentObject[k].key = name].value
    ELSE given
\* the filter of a request made with the standard_filter sf
FilterOf(sf) ==
    IF sf.type = "str" /\ sf.str # "" THEN StandardEquals(NormalizedFilter(sf.str))
    ELSE NoFilter

\* C23: in the recovery case (no query given directly, and an extra
\* argument that holds a non-empty list whose first element is an
\* argument-object) query, limit and standard_filter are those of that
\* first element; a query given as a list of strings is unwrapped or
\* answered with an error string; and the backend is never queried with a
\* query that is no string.
C23_MalformedShapeRecovered ==
    CallEnded =>
        /\ RecoveryCase =>
               /\ Taken("query", ArgNone).type # "str" =>
                      result = QueryError(Taken("query", ArgNone)) /\ sent = << >>
               /\ \A n \in DOMAIN sent :
                      /\ sent[n].query = Taken("query", ArgNone)
                      /\ sent[n].limit = CoercedLimit(Taken("limit", call.limit)).value
                      /\ sent[n].filter = FilterOf(Taken("standard_filter", call.standard_filter))
        /\ \A n \in DOMAIN sent : sent[n].query.type = "str"
        /\ Recovered(call).query.type = "list" =>
               \/ search_pc = "RETURNED" /\ result.kind = "error" /\ sent = << >>
               \/ \E n \in DOMAIN sent :
                      \E k \in DOMAIN Recovered(call).query.items :
                          sent[n].query = Recovered(call).query.items[k]
\* the search ran with the query, the limit and the filter of the first
\* element, each different from the one of the call
C23_Witness ==
    /\ search_pc = "RETURNED"
    /\ RecoveryCase
    /\ result.kind = "blocks"
    /\ sent # << >>
    /\ sent[1].query = ArgStr("logging")
    /\ sent[1].limit = ArgInt(2) /\ call.limit = ArgInt(DEFAULT_LIMIT)
    /\ sent[1].filter = StandardEquals("NIST") /\ call.standard_filter = ArgStr("owasp")

\* the backend was not contacted: no connection, no request
BackendUntouched == opened = 0 /\ closed = 0 /\ sent = << >>
\* the call returned an error string
AnsweredWithError == search_pc = "RETURNED" /\ result.kind = "error" /\ result.text # ""

\* C24: when the query the call goes on with is absent, is no string or is
\* the empty string, the search returns a descriptive error string and the
\* backend is not contacted.
C24_BadQueryRejected ==
    (CallEnded /\ (Recovered(call).query.type # "str" \/ Recovered(call).query.str = "")) =>
        AnsweredWithError /\ BackendUntouched

\* the limit of the call has an integer value: it is an int, or int() makes
\* one of it
HasIntegerValue(limit) == limit.type \in {"int", "bool"} \/ IntOf(limit).exc = ""

\* C25: the limit is made an integer before the backend is contacted; when
\* that fails the search returns an error string without contacting the
\* backend; and every request the backend receives has an integer limit of
\* at least 1.
C25_LimitIntegerAtLeastOne ==
    CallEnded =>
        /\ (QueryAccepted(Recovered(call).query)
                /\ ~HasIntegerValue(Recovered(call).limit)) =>
               AnsweredWithError /\ BackendUntouched
        /\ \A n \in DOMAIN sent :
               sent[n].limit.type \in {"int", "bool"} /\ sent[n].limit.num >= 1

\* the standard_filter the call goes on with is a non-empty str
FilterGiven ==
    Recovered(call).standard_filter.type = "str" /\ Recovered(call).standard_filter.str # ""
\* the names the catalogs are stored under
CanonicalNames == {"OWASP", "NIST", "ISO27001"}

\* C26: the filter a request carries is the canonical name of the standard
\* asked for: OWASP, NIST, ISO27001 and ISO in any letter case stand for
\* OWASP, NIST, ISO27001 and ISO27001; normalizing the normalized name
\* changes nothing; and a call without a filter sends a request without one.
C26_FilterCanonical ==
    (CallEnded /\ sent # << >>) =>
        \A n \in DOMAIN sent :
            /\ FilterGiven =>
                   LET given == Recovered(call).standard_filter.str
                   IN  /\ sent[n].filter.applied
                       /\ upper(given) = "OWASP" => sent[n].filter.value = "OWASP"
                       /\ upper(given) = "NIST" => sent[n].filter.value = "NIST"
                       /\ upper(given) \in {"ISO", "ISO27001"} =>
                              sent[n].filter.value = "ISO27001"
                       /\ upper(given) \notin {"OWASP", "NIST", "ISO", "ISO27001"} =>
                              sent[n].filter.value = given
                       /\ NormalizedFilter(sent[n].filter.value) = sent[n].filter.value
            /\ Recovered(call).standard_filter = ArgNone => sent[n].filter = NoFilter
\* a search filtered by 'iso' returned blocks, all of ISO27001
C26_Witness ==
    /\ search_pc = "RETURNED"
    /\ call.standard_filter = ArgStr("iso") /\ call.kwargs = << >>
    /\ sent # << >>
    /\ sent[1].filter = StandardEquals("ISO27001")
    /\ result.kind = "blocks"
    /\ \A i \in DOMAIN result.blocks : result.blocks[i].standard = "ISO27001"

\* ------------------------------------------------------------------------
\* The catalog scripts.

\* the number of ingestions one behaviour runs
MaxIngestions == 2

\* A table in which the control identifier of the first record recurs, in
\* a record with another description.
WithRepeatedId(table) ==
    Append(table, [table[1] EXCEPT !.description = "Policies are reviewed at planned intervals."])
\* the tables considered for the ISO loader: the one it holds, and that
\* table with a repeated control identifier
IsoSources == {iso_controls, WithRepeatedId(iso_controls)}

\* a loader that writes its records without their standard
DumpedWithoutStandard(table) ==
    [exists |-> TRUE, records |-> [i \in DOMAIN table |-> [table[i] EXCEPT !.standard_name = ""]]]
\* json.dump(table, f, indent=2, ensure_ascii=False) into a file opened with
\* "w": the artifact is replaced by the list of the records of the table,
\* each with the five keys it has there
Dumped(table) == [exists |-> TRUE, records |-> table]

\* the scripts are about to run, with the flow and the search at rest
InitCatalog ==
    /\ FlowIdle
    /\ SearchIdle
    /\ iso_source \in IsoSources
    /\ prepared = [f \in PreparedFiles |-> NotWritten]
    /\ collection \in {NoCollection}
    /\ ingestions = 0
    /\ script_fault = ""
    /\ script = ""
    /\ total_imported = 0

\* prepare_iso27001 (data/prepare_iso27001.py lines 14-222)
prepare_iso27001 ==
    /\ prepared' = [prepared EXCEPT !["iso27001.json"] = Dumped(iso_source)]
    /\ script_fault' = ""
    /\ script' = "prepare_iso27001"
    /\ UNCHANGED <<iso_source, collection, ingestions, total_imported>>
    /\ UNCHANGED <<flow_vars, search_vars>>
\* prepare_nist_csf (data/prepare_nist.py lines 13-209)
prepare_nist_csf ==
    /\ prepared' = [prepared EXCEPT !["nist_csf.json"] = Dumped(nist_controls)]
    /\ script_fault' = ""
    /\ script' = "prepare_nist_csf"
    /\ UNCHANGED <<iso_source, collection, ingestions, total_imported>>
    /\ UNCHANGED <<flow_vars, search_vars>>
\* prepare_owasp_asvs (data/prepare_owasp_asvs.py lines 14-155)
prepare_owasp_asvs ==
    /\ prepared' = [prepared EXCEPT !["owasp_asvs.json"] = Dumped(owasp_controls)]
    /\ script_fault' = ""
    /\ script' = "prepare_owasp_asvs"
    /\ UNCHANGED <<iso_source, collection, ingestions, total_imported>>
    /\ UNCHANGED <<flow_vars, search_vars>>

\* a set-up that creates the collection only when there is none
setup_weaviate_schema_keeping ==
    /\ \E connected \in BOOLEAN :
           IF connected
           THEN /\ collection' = IF collection.exists THEN collection
                                 ELSE [exists |-> TRUE, objects |-> EmptyBag]
                /\ script_fault' = ""
           ELSE /\ script_fault' = "WeaviateStartUpError"
                /\ UNCHANGED collection
    /\ script' = "setup_weaviate_schema"
    /\ UNCHANGED <<iso_source, prepared, ingestions, total_imported>>
    /\ UNCHANGED <<flow_vars, search_vars>>

\* setup_weaviate_schema (tools/weaviate_setup.py lines 14-69): the
\* connection may fail, which leaves the script with the exception; else an
\* existing collection is deleted and an empty one is created
setup_weaviate_schema ==
    /\ \E connected \in BOOLEAN :
           IF connected
           THEN /\ collection' = [exists |-> TRUE, objects |-> EmptyBag]
                /\ script_fault' = ""
           ELSE /\ script_fault' = "WeaviateStartUpError"
                /\ UNCHANGED collection
    /\ script' = "setup_weaviate_schema"
    /\ UNCHANGED <<iso_source, prepared, ingestions, total_imported>>
    /\ UNCHANGED <<flow_vars, search_vars>>

\* the objects of a sequence, each as often as it occurs
BagOf(s) ==
    LET elements == {s[i] : i \in DOMAIN s}
    IN  [x \in elements |-> Cardinality({i \in DOMAIN s : s[i] = x})]
\* lines 93-118 for the artifacts found: the objects made of their records
ObjectsToInsert(files) ==
    LET RECURSIVE Sum(_)
        Sum(fs) ==
            IF fs = {} THEN EmptyBag
            ELSE LET f == CHOOSE f \in fs : TRUE
                     controls == prepared[f].records
                 IN  BagOf([i \in DOMAIN controls |-> IngestedObject(controls[i])])
                         (+) Sum(fs \ {f})
    IN  Sum(files)

\* total_imported (lines 91, 118): the numbers of objects inserted, summed
\* over the artifacts
TotalImported(files) ==
    LET RECURSIVE Sum(_)
        Sum(fs) ==
            IF fs = {} THEN 0
            ELSE LET f == CHOOSE f \in fs : TRUE
                 IN  Len(prepared[f].records) + Sum(fs \ {f})
    IN  Sum(files)

\* ingest_security_standards (tools/weaviate_setup.py lines 72-124): the
\* connection may fail; without a prepared artifact the script returns at
\* line 89; else the objects of every artifact are inserted. What
\* insert_many does when the collection does not exist is not in this
\* repository: it raises, or the backend creates the collection.
ingest_security_standards ==
    /\ ingestions < MaxIngestions
    /\ ingestions' = ingestions + 1
    /\ script' = "ingest_security_standards"
    /\ \E connected, creates \in BOOLEAN :
           LET json_files == {f \in PreparedFiles : prepared[f].exists}
           IN  IF ~connected
               THEN /\ script_fault' = "WeaviateStartUpError"
                    /\ UNCHANGED <<collection, total_imported>>
               ELSE IF json_files = {}
               THEN /\ script_fault' = ""
                    /\ UNCHANGED <<collection, total_imported>>
               ELSE IF ~collection.exists /\ ~creates
               THEN /\ script_fault' = "UnexpectedStatusCodeError"
                    /\ UNCHANGED <<collection, total_imported>>
               ELSE /\ script_fault' = ""
                    /\ collection' =
                         [exists |-> TRUE,
                          objects |-> (IF collection.exists THEN collection.objects
                                       ELSE EmptyBag) (+) ObjectsToInsert(json_files)]
                    /\ total_imported' = TotalImported(json_files)
    /\ UNCHANGED <<iso_source, prepared>>
    /\ UNCHANGED <<flow_vars, search_vars>>

NextCatalog ==
    \/ prepare_iso27001
    \/ prepare_nist_csf
    \/ prepare_owasp_asvs
    \/ setup_weaviate_schema
    \/ ingest_security_standards
SpecCatalog == InitCatalog /\ [][NextCatalog]_vars

\* C27: every record one of the three loaders writes to its artifact has a
\* non-empty standard identifier and a non-empty control identifier, and all
\* the records of one artifact have the same standard identifier.
C27_RecordsIdentified ==
    \A f \in PreparedFiles :
        prepared[f].exists =>
            LET records == prepared[f].records
            IN  /\ \A i \in DOMAIN records :
                       records[i].standard_name # "" /\ records[i].control_id # ""
                /\ \A i, j \in DOMAIN records :
                       records[i].standard_name = records[j].standard_name
\* the three artifacts are written, each with the records of its table
C27_Witness ==
    /\ \A f \in PreparedFiles : prepared[f].exists /\ prepared[f].records # << >>
    /\ prepared["iso27001.json"].records[1].standard_name = "ISO27001"
    /\ prepared["nist_csf.json"].records[1].standard_name = "NIST"
    /\ prepared["owasp_asvs.json"].records[1].standard_name = "OWASP"

StatesRecord(v) == v.shape = "json"

\* C29: the parse of the validation output stops at the first tier that
\* succeeds: after a structured record that states a score and no passed
\* flag, validation_passed is false whatever the score; after a structured
\* record that states passed = true, validation_passed is true whatever the
\* score.
C29_FirstTierDecides ==
    (Executed("validate_requirements") /\ StatesRecord(verdict)) =>
        /\ (verdict.skind = "num" /\ StatesNoFlag(verdict)) => validation_passed = Bool(FALSE)
        /\ StatesPassedTrue(verdict) => validation_passed = Bool(TRUE)
\* a record with the score 0.92 and no flag left the run not passed
C29_Witness ==
    /\ Validated
    /\ StatesRecord(verdict)
    /\ verdict.skind = "num" /\ verdict.sval = <<92, 100>>
    /\ StatesNoFlag(verdict)
    /\ validation_score = Float(92, 100)
    /\ validation_passed = Bool(FALSE)

\* The validation step entered again: Run State as an earlier iteration
\* leaves it when its validation did not pass, i.e. report, score and flag
\* of that validation, the counter incremented (line 219) and the outputs
\* of the stages run again.
InitValidate ==
    /\ requirements_text \in InputTexts
    /\ disk_text = requirements_text
    /\ input_file = ExistingFile
    /\ analyzed_requirements = StageOutput("analysis", 2)
    /\ security_controls = StageOutput("controls", 2)
    /\ ai_security = StageOutput("ai_security", 2)
    /\ compliance_requirements = StageOutput("compliance", 2)
    /\ verdict \in Verdicts
    /\ validation_report = Render(verdict)
    /\ LET r == ParseValidation(Render(verdict), Float(0, 1), Bool(FALSE))
       IN  /\ ValidationFault(r) = ""
           /\ ~Truthy(r.passed)
           /\ validation_score = r.score
           /\ validation_passed = r.passed
    /\ iteration_count \in 1..(MAX_ITERATIONS - 1)
    /\ final_requirements = << >>
    /\ pc = "VALIDATING"
    /\ caller = "flow"
    /\ fault = ""
    /\ out_json = << >>
    /\ out_md = << >>
    /\ md_warning = FALSE
    /\ trace = << >>
    /\ kickoff_inputs = Inputs(requirements_text, analyzed_requirements, security_controls,
                               ai_security, << >>)
    /\ SearchIdle
    /\ CatalogIdle
NextValidate == validate_requirements
SpecValidate == InitValidate /\ [][NextValidate]_vars

StageHandlers ==
    {"analyze_requirements", "map_security_controls", "identify_ai_security",
     "assess_compliance", "validate_requirements"}
LastStageCalled ==
    LET calls == {i \in DOMAIN trace : trace[i] \in StageHandlers}
    IN  IF calls = {} THEN "" ELSE trace[CHOOSE i \in calls : \A j \in calls : j <= i]

\* C31: in every final report written, the four stage outputs and the
\* validation report are of one iteration, the last one executed: the
\* stage called last before the report is the validation, the outputs in
\* the report are those that validation was handed, and the report, score
\* and flag in it are what that validation returned for them.
C31_ReportOfOneIteration ==
    ReportWritten =>
        LET doc == out_json[1]
        IN  /\ LastStageCalled = "validate_requirements"
            /\ doc.requirements_analysis = kickoff_inputs.analyzed_requirements
            /\ doc.security_controls = kickoff_inputs.security_controls
            /\ doc.ai_ml_security = kickoff_inputs.ai_security
            /\ doc.compliance_requirements = kickoff_inputs.compliance_requirements
            /\ doc.validation_report = Render(verdict)
            /\ LET r == ParseValidation(Render(verdict), Float(0, 1), Bool(FALSE))
               IN  /\ doc.metadata.validation_score = r.score
                   /\ doc.metadata.validation_passed = r.passed
\* a run ended with a report of the outputs its one validation passed
C31_Witness ==
    /\ Ended
    /\ ReportWritten
    /\ Times("validate_requirements") = 1
    /\ FullReport(out_json[1])
    /\ out_json[1].requirements_analysis = kickoff_inputs.analyzed_requirements
    /\ out_json[1].validation_report = Render(verdict)
    /\ Truthy(out_json[1].metadata.validation_passed)

\* the input text has been loaded
Loaded == Executed("load_requirements") /\ ~(pc = "ABORTED" /\ LastStageCalled = "")
\* the requirements_text the stage called last was handed
HandedText == kickoff_inputs.requirements_text

\* C32: the stored input text is what LOADING read and is never modified
\* afterwards; the first analysis is handed exactly that text, the analysis
\* entered again is handed that text followed only by the header and the
\* report of the most recent validation, and the AI-security, compliance
\* and validation stages are handed that text without feedback.
C32_InputTextUntouched ==
    /\ Loaded => requirements_text = disk_text
    /\ (LastStageCalled = "analyze_requirements" /\ Times("analyze_requirements") = 1) =>
           HandedText = disk_text
    /\ (LastStageCalled = "analyze_requirements" /\ Times("analyze_requirements") > 1) =>
           HandedText = IF validation_report = << >> THEN disk_text
                        ELSE disk_text \o <<FEEDBACK_HEADER>> \o Render(verdict)
    /\ LastStageCalled \in {"identify_ai_security", "assess_compliance",
                            "validate_requirements"} =>
           HandedText = disk_text
\* the analysis entered again was handed text and feedback, and the stored
\* text is still the one loaded
C32_Witness ==
    /\ Ended
    /\ Times("analyze_requirements") = 2
    /\ LastStageCalled = "analyze_requirements"
    /\ validation_report # << >>
    /\ HandedText = disk_text \o <<FEEDBACK_HEADER>> \o validation_report
    /\ requirements_text = disk_text
    /\ HandedText # requirements_text

\* the placeholders of lines 137-141
Placeholders == {"N/A", "No description", "Unknown"}

\* C33: a record ingested from a prepared artifact and returned by a search
\* is rendered with its own standard, control identifier and description:
\* no block shows a placeholder in their place.
C33_IngestedRecordRendered ==
    (SearchSucceeded /\ result.kind = "blocks") =>
        \A i \in DOMAIN result.blocks :
            LET object == SubSeq(Matches, 1, Len(result.blocks))[i]
                block == result.blocks[i]
            IN  /\ block.standard = object.standard
                /\ block.req_id = object.control_id
                /\ block.req_description = object.description
                /\ {block.standard, block.req_id, block.req_description} \cap Placeholders = {}

\* the canonical values of the synonym table
CanonicalValues == {standard_map[k] : k \in DOMAIN standard_map}
\* the standard identifiers of the records of an artifact
StandardsOf(f) == {prepared[f].records[i].standard_name : i \in DOMAIN prepared[f].records}
\* the objects of the collection stored for a standard
StoredFor(standard) == {o \in BagToSet(collection.objects) : o.standard = standard}
\* the objects ingestion makes of the prepared records of a standard
PreparedFor(standard) ==
    UNION {{IngestedObject(prepared[f].records[i]) : i \in DOMAIN prepared[f].records} :
               f \in {g \in PreparedFiles : standard \in StandardsOf(g)}}
AllPrepared == \A f \in PreparedFiles : prepared[f].exists

\* C34: every standard identifier a loader writes, and ingestion stores as
\* 'standard', is a canonical value of the synonym table; once the three
\* catalogs are prepared every canonical value is the identifier of one of
\* them; so that the filter any accepted name stands for selects, of the
\* stored objects, exactly those made of the records of that standard.
C34_IdentifiersCanonical ==
    /\ \A f \in PreparedFiles : StandardsOf(f) \subseteq CanonicalValues
    /\ \A o \in BagToSet(collection.objects) : o.standard \in CanonicalValues
    /\ AllPrepared => CanonicalValues \subseteq UNION {StandardsOf(f) : f \in PreparedFiles}
    /\ \A name \in {"owasp", "Nist", "ISO", "iso27001"} :
           /\ NormalizedFilter(name) \in CanonicalValues
           /\ StoredFor(NormalizedFilter(name)) \subseteq PreparedFor(NormalizedFilter(name))
           /\ StoredFor(NormalizedFilter(name)) # {} =>
                  StoredFor(NormalizedFilter(name)) = PreparedFor(NormalizedFilter(name))
\* the three catalogs are ingested and each accepted name selects objects
C34_Witness ==
    /\ AllPrepared
    /\ collection.exists
    /\ {o.standard : o \in BagToSet(collection.objects)} = CanonicalValues
    /\ StoredFor(NormalizedFilter("iso")) = PreparedFor("ISO27001")
    /\ StoredFor(NormalizedFilter("iso")) # {}

\* the last script ran to its end
Completed(name) == script = name /\ script_fault = ""
\* the number of prepared records ingestion makes the object x of
TimesPrepared(x) ==
    LET n(f) == Cardinality({i \in DOMAIN prepared[f].records :
                                 IngestedObject(prepared[f].records[i]) = x})
    IN  n("iso27001.json") + n("nist_csf.json") + n("owasp_asvs.json")
\* the number of prepared records
PreparedCount ==
    Len(prepared["iso27001.json"].records) + Len(prepared["nist_csf.json"].records)
        + Len(prepared["owasp_asvs.json"].records)
\* every object made of a prepared record, and the objects stored
PreparedObjects ==
    UNION {{IngestedObject(prepared[f].records[i]) : i \in DOMAIN prepared[f].records} :
               f \in PreparedFiles}
StoredObjects == BagToSet(collection.objects)
\* the collection holds every object n times as often as it is prepared
StoredTimes(n) ==
    /\ StoredObjects = PreparedObjects
    /\ \A x \in PreparedObjects : CopiesIn(x, collection.objects) = n * TimesPrepared(x)

\* C35: when setup_weaviate_schema completes the collection exists and is
\* empty, whatever there was before; an ingestion that completes inserts
\* every record of every prepared artifact exactly once, on top of what the
\* collection held, and reports as total the number of those records; so
\* that an ingestion right after a set-up leaves every prepared record
\* once, however often the pair ran before, and an ingestion right after an
\* ingestion leaves one more copy of every record.
C35_SetupReplacesIngestionAdds ==
    [][/\ Completed("setup_weaviate_schema")' =>
              collection' = [exists |-> TRUE, objects |-> EmptyBag]
       /\ (Completed("ingest_security_standards")' /\ ingestions' # ingestions
               /\ PreparedObjects # {}) =>
              /\ collection'.exists
              /\ \A x \in StoredObjects' \cup PreparedObjects :
                     CopiesIn(x, collection'.objects)
                         = CopiesIn(x, collection.objects) + TimesPrepared(x)
              /\ total_imported' = PreparedCount
              /\ Completed("setup_weaviate_schema") => StoredTimes(1)'
              /\ (Completed("ingest_security_standards") /\ StoredTimes(1)) =>
                     StoredTimes(2)']_vars
\* two ingestions in a row stored every prepared record twice
C35_Witness ==
    /\ Completed("ingest_security_standards")
    /\ ingestions = 2
    /\ AllPrepared
    /\ StoredTimes(2)
    /\ total_imported = PreparedCount
    /\ BagCardinality(collection.objects) = 2 * PreparedCount

\* the call was rejected by the validation of lines 80-95
RejectedByValidation ==
    /\ search_pc = "RETURNED"
    /\ result \in {QueryError(Recovered(call).query), LimitError(Recovered(call).limit)}

\* C36: when a search call has ended, close() has been called on every
\* connection it opened, whether results were found, nothing matched or the
\* query failed; and a call rejected by the validation of its arguments has
\* opened no connection.
C36_ConnectionsClosed ==
    CallEnded =>
        /\ closed = opened
        /\ opened <= 1
        /\ RejectedByValidation => opened = 0
\* a call whose query failed in the backend returned with its connection
\* closed
C36_Witness ==
    /\ search_pc = "RETURNED"
    /\ opened = 1 /\ closed = 1
    /\ sent # << >>
    /\ result = BackendError("WeaviateQueryError")

============================================================================
